---- MODULE Spec2Model ----
(***************************************************************************)
(* The strength-program generation engine of the gym application           *)
(* (backend/app/services/strength_program_generator.py) and the two        *)
(* endpoints that call it (backend/app/api/programs.py: preview_program,   *)
(* create_program), as a state machine.                                    *)
(*                                                                         *)
(* Conventions of the translation                                          *)
(*  - Python floats that hold weights (one_rm, target_weight, weight_lbs,  *)
(*    weekly_jump_lbs, ramp_up_base_lbs) are fixed-point integers counting *)
(*    1/Scale of a pound; Lbs(n) is n whole pounds.  Over the input sets   *)
(*    used here the double-precision evaluation of the source agrees with  *)
(*    exact arithmetic, round() being round-half-to-even.                  *)
(*  - Optional[T] is a sequence: None is <<>>, a value v is <<v>>.         *)
(*  - str values that the code builds, formats or changes the case of are  *)
(*    sequences: a movement name is a sequence of characters, an f-string  *)
(*    is the sequence of its parts.                                        *)
(*  - A raised exception is a record with the field exc.                   *)
(***************************************************************************)
EXTENDS Integers, Sequences, FiniteSets, TLC

VARIABLES
    WEEKLY_JUMP_TABLE,          \* class attribute of StrengthProgramGenerator
    RAMP_UP_TABLE,              \* class attribute of StrengthProgramGenerator
    PROTOCOL_BY_WEEK,           \* class attribute of StrengthProgramGenerator
    inputs,                     \* the ProgramInputs body the client posts
    response,                   \* the last HTTP response
    earlier,                    \* one earlier preview response, kept for comparison
    programs,                   \* table programs (committed rows)
    program_weeks,              \* table program_weeks
    program_days,               \* table program_days
    program_day_exercises,      \* table program_day_exercises
    client_program_assignments, \* table client_program_assignments
    workout_logs,               \* table workout_logs
    uuids,                      \* the ids uuid4() has handed out for workout logs
    deleted_workouts,           \* the workout ids a delete_workout has removed
    sessions                    \* generate_for_client requests between read and commit

tables == <<WEEKLY_JUMP_TABLE, RAMP_UP_TABLE, PROTOCOL_BY_WEEK>>

db == <<programs, program_weeks, program_days, program_day_exercises,
        client_program_assignments>>

workouts == <<workout_logs, uuids, deleted_workouts>>

vars == <<WEEKLY_JUMP_TABLE, RAMP_UP_TABLE, PROTOCOL_BY_WEEK, inputs, response,
          earlier, programs, program_weeks, program_days, program_day_exercises,
          client_program_assignments, workout_logs, uuids, deleted_workouts,
          sessions>>

-----------------------------------------------------------------------------
(* Python values *)

None == <<>>

Some(v) == <<v>>

\* weights are counted in 1/Scale pound
Scale == 8

Lbs(n) == n * Scale

\* dict.get(key, default)
Get(table, key, default) == IF key \in DOMAIN table THEN table[key] ELSE default

\* rounding halves up, as round() of other languages does
round_half_up(num, den) ==
    LET q == num \div den
        r == num % den
    IN  IF 2 * r < den THEN q ELSE q + 1

\* round(num / den) for den > 0: Python 3 rounds halves to the even neighbour
round(num, den) ==
    LET q == num \div den
        r == num % den
    IN  IF 2 * r < den THEN q
        ELSE IF 2 * r > den THEN q + 1
        ELSE IF q % 2 = 0 THEN q ELSE q + 1

LowerCase == <<"b", "p", "q", "s">>

UpperCase == <<"B", "P", "Q", "S">>

\* a slip in the label: the name is kept as it was typed
keep_case(s) == s

\* str.upper()
upper(s) ==
    [i \in DOMAIN s |->
        IF \E k \in DOMAIN LowerCase : LowerCase[k] = s[i]
        THEN UpperCase[CHOOSE k \in DOMAIN LowerCase : LowerCase[k] = s[i]]
        ELSE s[i]]

\* str.lower()
lower(s) ==
    [i \in DOMAIN s |->
        IF \E k \in DOMAIN UpperCase : UpperCase[k] = s[i]
        THEN LowerCase[CHOOSE k \in DOMAIN UpperCase : UpperCase[k] = s[i]]
        ELSE s[i]]

IsException(r) == "exc" \in DOMAIN r

-----------------------------------------------------------------------------
(* StrengthProgramGenerator: constants *)

VERSION == "v1.0.0"

BUILDER_TYPE == "strength_linear_5x5"

WEEKLY_JUMP_TABLE_0 ==
    20 :> 2 @@ 19 :> 2 @@ 18 :> 2 @@ 17 :> 2 @@ 16 :> 2 @@
    15 :> 3 @@ 14 :> 3 @@ 13 :> 3 @@ 12 :> 3 @@ 11 :> 3 @@
    10 :> 4 @@ 9 :> 4 @@ 8 :> 4 @@ 7 :> 4 @@ 6 :> 4 @@
    5 :> 5 @@ 4 :> 5 @@ 3 :> 5 @@ 2 :> 5 @@ 1 :> 5

RAMP_UP_TABLE_0 ==
    20 :> 70 @@ 19 :> 69 @@ 18 :> 68 @@ 17 :> 67 @@ 16 :> 66 @@
    15 :> 65 @@ 14 :> 64 @@ 13 :> 63 @@ 12 :> 62 @@ 11 :> 61 @@
    10 :> 60 @@ 9 :> 59 @@ 8 :> 58 @@ 7 :> 57 @@ 6 :> 56 @@
    5 :> 55 @@ 4 :> 54 @@ 3 :> 53 @@ 2 :> 52 @@ 1 :> 51

PROTOCOL_BY_WEEK_0 ==
    1 :> <<5, 5>> @@ 2 :> <<5, 5>> @@ 3 :> <<5, 5>> @@ 4 :> <<5, 5>> @@
    5 :> <<5, 5>> @@ 6 :> <<3, 3>> @@ 7 :> <<2, 2>> @@ 8 :> <<1, 1>>

-----------------------------------------------------------------------------
(* StrengthProgramGenerator: calculation methods *)

\* a slip in the lookup: the ramp-up percentage is read from the weekly-jump table
MovementCalculations_one_table(movement) ==
    LET weekly_jump_pct == Get(WEEKLY_JUMP_TABLE, movement.max_reps_at_80_percent, 5)
        weekly_jump_lbs == round(movement.one_rm * weekly_jump_pct, 100 * Scale)
        ramp_up_pct == Get(WEEKLY_JUMP_TABLE, movement.max_reps_at_80_percent, 55)
        ramp_up_base_lbs == round(movement.one_rm * ramp_up_pct, 100 * Scale)
    IN  [name |-> movement.name,
         weekly_jump_percent |-> weekly_jump_pct,
         weekly_jump_lbs |-> Lbs(weekly_jump_lbs),
         ramp_up_percent |-> ramp_up_pct,
         ramp_up_base_lbs |-> Lbs(ramp_up_base_lbs)]

\* a slip in the pounds: they are taken from the target weight, not from one_rm
MovementCalculations_of_target(movement) ==
    LET weekly_jump_pct == Get(WEEKLY_JUMP_TABLE, movement.max_reps_at_80_percent, 5)
        weekly_jump_lbs == round(movement.target_weight * weekly_jump_pct, 100 * Scale)
        ramp_up_pct == Get(RAMP_UP_TABLE, movement.max_reps_at_80_percent, 55)
        ramp_up_base_lbs == round(movement.target_weight * ramp_up_pct, 100 * Scale)
    IN  [name |-> movement.name,
         weekly_jump_percent |-> weekly_jump_pct,
         weekly_jump_lbs |-> Lbs(weekly_jump_lbs),
         ramp_up_percent |-> ramp_up_pct,
         ramp_up_base_lbs |-> Lbs(ramp_up_base_lbs)]

\* the body of the loop of _calculate_movement_data
MovementCalculations(movement) ==
    LET weekly_jump_pct == Get(WEEKLY_JUMP_TABLE, movement.max_reps_at_80_percent, 5)
        weekly_jump_lbs == round(movement.one_rm * weekly_jump_pct, 100 * Scale)
        ramp_up_pct == Get(RAMP_UP_TABLE, movement.max_reps_at_80_percent, 55)
        ramp_up_base_lbs == round(movement.one_rm * ramp_up_pct, 100 * Scale)
    IN  [name |-> movement.name,
         weekly_jump_percent |-> weekly_jump_pct,
         weekly_jump_lbs |-> Lbs(weekly_jump_lbs),
         ramp_up_percent |-> ramp_up_pct,
         ramp_up_base_lbs |-> Lbs(ramp_up_base_lbs)]

\* a slip in the loop: a name that already has its entry keeps it
_calculate_movement_data_first_wins(movements) ==
    [n \in {movements[i].name : i \in DOMAIN movements} |->
        LET first == CHOOSE i \in DOMAIN movements :
                        /\ movements[i].name = n
                        /\ \A j \in DOMAIN movements : movements[j].name = n => i <= j
        IN  MovementCalculations(movements[first])]

\* result[movement.name] = ... in list order: the last movement of a name wins
_calculate_movement_data(movements) ==
    [n \in {movements[i].name : i \in DOMAIN movements} |->
        LET last == CHOOSE i \in DOMAIN movements :
                        /\ movements[i].name = n
                        /\ \A j \in DOMAIN movements : movements[j].name = n => j <= i
        IN  MovementCalculations(movements[last])]

\* a slip in the peak week: week 7 gets one jump, as week 6
heavy_weight_one_jump(movement, week_num, calc_data) ==
    IF week_num <= 5
    THEN movement.target_weight - ((5 - week_num) * calc_data.weekly_jump_lbs)
    ELSE IF week_num = 6 \/ week_num = 7
    THEN movement.target_weight + calc_data.weekly_jump_lbs
    ELSE 0

\* heavy_weight of _calculate_exercise
heavy_weight_of(movement, week_num, calc_data) ==
    IF week_num <= 5
    THEN movement.target_weight - ((5 - week_num) * calc_data.weekly_jump_lbs)
    ELSE IF week_num = 6
    THEN movement.target_weight + calc_data.weekly_jump_lbs
    ELSE IF week_num = 7
    THEN movement.target_weight + (2 * calc_data.weekly_jump_lbs)
    ELSE 0

\* a slip in the percentage: it is taken from the heavy weight on every day
_calculate_exercise_heavy_percentage(movement, week_num, calc_data, sets, reps, is_heavy) ==
    LET heavy_weight == heavy_weight_of(movement, week_num, calc_data)
        weight == IF is_heavy THEN heavy_weight ELSE Lbs(round(heavy_weight * 4, 5 * Scale))
    IN  [exercise_name |-> IF is_heavy THEN upper(movement.name) ELSE lower(movement.name),
         sets |-> sets,
         reps |-> reps,
         weight_lbs |-> IF weight > 0 THEN Some(weight) ELSE None,
         percentage_1rm |-> IF weight > 0
                            THEN Some(round(heavy_weight * 100, movement.one_rm))
                            ELSE None,
         notes |-> <<>>]

_calculate_exercise(movement, week_num, calc_data, sets, reps, is_heavy) ==
    LET heavy_weight == heavy_weight_of(movement, week_num, calc_data)
        \* round(heavy_weight * 0.8)
        weight == IF is_heavy THEN heavy_weight ELSE Lbs(round(heavy_weight * 4, 5 * Scale))
        \* round((weight / movement.one_rm) * 100)
        percentage_1rm == IF weight > 0 THEN Some(round(weight * 100, movement.one_rm))
                          ELSE None
        exercise_name == IF is_heavy THEN upper(movement.name) ELSE lower(movement.name)
    IN  [exercise_name |-> exercise_name,
         sets |-> sets,
         reps |-> reps,
         weight_lbs |-> IF weight > 0 THEN Some(weight) ELSE None,
         percentage_1rm |-> percentage_1rm,
         notes |-> <<>>]

\* a slip in the comprehension: the movements are taken last to first
_generate_test_day_reversed(inp) ==
    [day_number |-> 1,
     name |-> <<"1RM Test Day">>,
     suggested_day_of_week |-> Some("Wednesday"),
     exercises |->
        [i \in DOMAIN inp.movements |->
            LET movement == inp.movements[Len(inp.movements) + 1 - i]
            IN  [exercise_name |-> upper(movement.name),
                 sets |-> 1,
                 reps |-> 1,
                 weight_lbs |-> None,
                 percentage_1rm |-> Some(100),
                 notes |-> <<"Test new 1RM. Previous: ", movement.one_rm, " lbs">>]]]

_generate_test_day(inp) ==
    [day_number |-> 1,
     name |-> <<"1RM Test Day">>,
     suggested_day_of_week |-> Some("Wednesday"),
     exercises |->
        [i \in DOMAIN inp.movements |->
            [exercise_name |-> upper(inp.movements[i].name),
             sets |-> 1,
             reps |-> 1,
             weight_lbs |-> None,
             percentage_1rm |-> Some(100),
             notes |-> <<"Test new 1RM. Previous: ", inp.movements[i].one_rm, " lbs">>]]]

day_names == 1 :> "Monday" @@ 2 :> "Wednesday" @@ 3 :> "Friday" @@ 4 :> "Saturday"

\* a slip in the light day: its volume is cut to three sets
_generate_day_light_volume(day_num, week_num, inp, calculated_data, sets, reps, is_heavy) ==
    [day_number |-> day_num,
     name |-> <<"Session ", day_num, " - ", IF is_heavy THEN "Heavy" ELSE "Light", " Day">>,
     suggested_day_of_week |->
        IF day_num \in DOMAIN day_names THEN Some(day_names[day_num]) ELSE None,
     exercises |->
        [i \in DOMAIN inp.movements |->
            _calculate_exercise(inp.movements[i], week_num,
                                calculated_data[inp.movements[i].name],
                                IF is_heavy THEN sets ELSE 3, reps, is_heavy)]]

_generate_day(day_num, week_num, inp, calculated_data, sets, reps, is_heavy) ==
    LET intensity == IF is_heavy THEN "Heavy" ELSE "Light"
    IN  [day_number |-> day_num,
         name |-> <<"Session ", day_num, " - ", intensity, " Day">>,
         suggested_day_of_week |->
            IF day_num \in DOMAIN day_names THEN Some(day_names[day_num]) ELSE None,
         exercises |->
            [i \in DOMAIN inp.movements |->
                _calculate_exercise(inp.movements[i], week_num,
                                    calculated_data[inp.movements[i].name],
                                    sets, reps, is_heavy)]]

_get_week_name(week_num) ==
    CASE week_num = 1 -> <<"Foundation Phase">>
      [] week_num \in 2..5 -> <<"Building Phase - Week ", week_num>>
      [] week_num = 6 -> <<"Intensification Phase">>
      [] week_num = 7 -> <<"Peak Phase">>
      [] week_num = 8 -> <<"Testing Week">>
      [] OTHER -> <<"Week ", week_num>>

\* range(1, n + 1); empty when n < 1
Range1(n) == [i \in 1..n |-> i]

\* a slip in the parity: the even days are the heavy ones
is_heavy_on_even_days(day_num) == day_num % 2 = 0

\* is_heavy = (day_num % 2 == 1)
is_heavy(day_num) == day_num % 2 = 1

\* a slip in the test week: week 8 is built as a training week, from its protocol
_generate_week_no_test_week(week_num, inp, calculated_data) ==
    IF week_num \notin DOMAIN PROTOCOL_BY_WEEK
    THEN [exc |-> "KeyError", arg |-> week_num]
    ELSE [week_number |-> week_num,
          name |-> _get_week_name(week_num),
          days |->
             [k \in DOMAIN Range1(inp.days_per_week) |->
                 _generate_day(Range1(inp.days_per_week)[k], week_num, inp,
                               calculated_data, PROTOCOL_BY_WEEK[week_num][1],
                               PROTOCOL_BY_WEEK[week_num][2],
                               is_heavy(Range1(inp.days_per_week)[k]))]]

\* a slip in the test week: the last week of the program is taken for it
_generate_week_test_last(week_num, inp, calculated_data) ==
    IF week_num = inp.duration_weeks
    THEN [week_number |-> week_num,
          name |-> _get_week_name(week_num),
          days |-> <<_generate_test_day(inp)>>]
    ELSE IF week_num \notin DOMAIN PROTOCOL_BY_WEEK
    THEN [exc |-> "KeyError", arg |-> week_num]
    ELSE [week_number |-> week_num,
          name |-> _get_week_name(week_num),
          days |->
             [k \in DOMAIN Range1(inp.days_per_week) |->
                 _generate_day(Range1(inp.days_per_week)[k], week_num, inp,
                               calculated_data, PROTOCOL_BY_WEEK[week_num][1],
                               PROTOCOL_BY_WEEK[week_num][2],
                               is_heavy(Range1(inp.days_per_week)[k]))]]

_generate_week(week_num, inp, calculated_data) ==
    IF week_num = 8
    THEN [week_number |-> week_num,
          name |-> _get_week_name(week_num),
          days |-> <<_generate_test_day(inp)>>]
    ELSE IF week_num \notin DOMAIN PROTOCOL_BY_WEEK
    THEN [exc |-> "KeyError", arg |-> week_num]
    ELSE LET sets == PROTOCOL_BY_WEEK[week_num][1]
             reps == PROTOCOL_BY_WEEK[week_num][2]
             day_nums == Range1(inp.days_per_week)
         IN  [week_number |-> week_num,
              name |-> _get_week_name(week_num),
              days |->
                 [k \in DOMAIN day_nums |->
                     _generate_day(day_nums[k], week_num, inp, calculated_data,
                                   sets, reps, is_heavy(day_nums[k]))]]

RECURSIVE WeeksLoop(_, _, _, _)
\* the loop of _generate_weeks from week_num on: the weeks list it returns as
\* [value |-> weeks], or the exception that ends it
WeeksLoop(week_num, inp, calculated_data, weeks) ==
    IF week_num > inp.duration_weeks THEN [value |-> weeks]
    ELSE LET week == _generate_week(week_num, inp, calculated_data)
         IN  IF IsException(week) THEN week
             ELSE WeeksLoop(week_num + 1, inp, calculated_data, Append(weeks, week))

\* a slip in the list: weeks is shared between calls, so a call appends to the
\* weeks the call before it returned
_generate_weeks_shared_list(inp, calculated_data) ==
    WeeksLoop(1, inp, calculated_data,
              IF response.endpoint = "preview_program" /\ response.status_code = 200
              THEN response.body.weeks ELSE <<>>)

\* (the set constructor evaluates calculated_data once for the whole loop)
_generate_weeks(inp, calculated_data) ==
    CHOOSE weeks \in {WeeksLoop(1, inp, cd, <<>>) : cd \in {calculated_data}} : TRUE

\* inputs.model_dump()
model_dump(inp) == inp

\* ProgramPreview(...), unless _generate_weeks raised
ProgramPreview(inp, calculated_data, weeks) ==
    IF IsException(weeks) THEN weeks
    ELSE [algorithm_version |-> VERSION,
          input_data |-> model_dump(inp),
          calculated_data |-> calculated_data,
          weeks |-> weeks.value]

generate_preview(inp) ==
    CHOOSE preview \in
        UNION {{ProgramPreview(inp, cd, weeks) : weeks \in {_generate_weeks(inp, cd)}}
               : cd \in {_calculate_movement_data(inp.movements)}} : TRUE

-----------------------------------------------------------------------------
(* The requests *)

\* lists of at most MaxMovements movements are posted
MaxMovements == 2

\* duration_weeks is drawn from 0..MaxDuration
MaxDuration == 9

\* days_per_week is drawn from 0..MaxDays
MaxDays == 5

\* the programs table holds at most MaxPrograms rows
MaxPrograms == 1

\* the number of programs generated from a template
MaxGenerated == 1

\* the number of program assignments
MaxAssignments == 2

\* the number of requests in flight at once
MaxRequests == 2

Squat == <<"S", "q">>

Bench == <<"B", "p">>

\* one_rm: 50, 150 and 200 lbs
OneRmValues == {Lbs(50), Lbs(150), Lbs(200)}

\* target_weight: 0.5, 3.125, 30 and 180 lbs
TargetValues == {4, 25, Lbs(30), Lbs(180)}

\* the movements the schema admits: one_rm > 0, 1 <= max_reps_at_80_percent <= 20,
\* target_weight > 0
MovementInput ==
    {m \in [name : {Squat}, one_rm : OneRmValues,
            max_reps_at_80_percent : 1..20, target_weight : TargetValues] :
        /\ m.one_rm > 0
        /\ m.max_reps_at_80_percent >= 1
        /\ m.max_reps_at_80_percent <= 20
        /\ m.target_weight > 0}

\* the movements of the requests that vary the schedule; two of them share a name
ScheduleMovements ==
    {[name |-> Squat, one_rm |-> Lbs(200), max_reps_at_80_percent |-> 12,
      target_weight |-> Lbs(180)],
     [name |-> Bench, one_rm |-> Lbs(50), max_reps_at_80_percent |-> 3,
      target_weight |-> Lbs(30)],
     [name |-> Squat, one_rm |-> Lbs(150), max_reps_at_80_percent |-> 3,
      target_weight |-> 25]}

MovementLists ==
    UNION {[1..n -> ScheduleMovements] : n \in 1..MaxMovements}

\* a ProgramInputs with the schema's defaults for the fields left out
ProgramInputsOf(movements, duration_weeks, days_per_week) ==
    [builder_type |-> "strength_linear_5x5",
     name |-> None,
     description |-> None,
     movements |-> movements,
     duration_weeks |-> duration_weeks,
     days_per_week |-> days_per_week,
     is_template |-> TRUE]

\* the request bodies: every single movement on the default schedule (8 weeks of
\* 4 days), and every schedule with the lists of ScheduleMovements
ProgramInputs ==
    {ProgramInputsOf(<<m>>, 8, 4) : m \in MovementInput}
    \cup {ProgramInputsOf(ms, d, k) :
            ms \in MovementLists, d \in 0..MaxDuration, k \in 0..MaxDays}

\* max_reps_at_80_percent outside the tables: below 1 and above 20
OutOfTableReps == {0, 21}

\* the bodies a client posts: the ProgramInputs the schema admits, and bodies it
\* rejects (a movement outside the tables, no movement at all)
RequestBodies ==
    ProgramInputs
    \cup {ProgramInputsOf(<<m>>, 8, 4) :
            m \in [name : {Squat}, one_rm : {Lbs(200)},
                   max_reps_at_80_percent : OutOfTableReps, target_weight : {Lbs(180)}]}
    \cup {ProgramInputsOf(<<>>, 8, 4)}

\* the Field constraints of MovementInput
MovementInput_validate(m) ==
    /\ m.one_rm > 0
    /\ m.max_reps_at_80_percent >= 1
    /\ m.max_reps_at_80_percent <= 20
    /\ m.target_weight > 0

\* the Field constraints of ProgramInputs: 1 to 4 movements, each one valid
ProgramInputs_validate(body) ==
    /\ Len(body.movements) >= 1
    /\ Len(body.movements) <= 4
    /\ \A i \in DOMAIN body.movements : MovementInput_validate(body.movements[i])

\* client_id of the create request: absent, a UUID, or a string that is no UUID
ClientIds == {None, Some("client-1"), Some("not-a-uuid")}

IsUUID(s) == s # "not-a-uuid"

NoResponse == [endpoint |-> "none"]

-----------------------------------------------------------------------------
(* StrengthProgramGenerator.get_constants *)

\* a slip in the accessor: the two percentage tables are handed out swapped
get_constants_swapped_tables ==
    [version |-> VERSION,
     builder_type |-> BUILDER_TYPE,
     weekly_jump_table |-> RAMP_UP_TABLE,
     ramp_up_table |-> WEEKLY_JUMP_TABLE,
     protocol_by_week |->
        [week \in DOMAIN PROTOCOL_BY_WEEK |->
            [sets |-> PROTOCOL_BY_WEEK[week][1], reps |-> PROTOCOL_BY_WEEK[week][2]]]]

get_constants ==
    [version |-> VERSION,
     builder_type |-> BUILDER_TYPE,
     weekly_jump_table |-> WEEKLY_JUMP_TABLE,
     ramp_up_table |-> RAMP_UP_TABLE,
     protocol_by_week |->
        [week \in DOMAIN PROTOCOL_BY_WEEK |->
            [sets |-> PROTOCOL_BY_WEEK[week][1], reps |-> PROTOCOL_BY_WEEK[week][2]]]]

-----------------------------------------------------------------------------
(* api/programs.py: the rows create_program adds *)

\* inputs.builder_type.replace('_', ' ').title()
title(builder_type) ==
    IF builder_type = "strength_linear_5x5" THEN "Strength Linear 5X5" ELSE builder_type

\* Program(...); id is the key the flush assigns
ProgramRow(id, inp, preview, client_id) ==
    [id |-> id,
     name |-> IF inp.name # None THEN inp.name[1]
              ELSE <<inp.duration_weeks, "-Week ", title(inp.builder_type)>>,
     description |-> inp.description,
     builder_type |-> inp.builder_type,
     algorithm_version |-> preview.algorithm_version,
     input_data |-> preview.input_data,
     calculated_data |->
        [name \in DOMAIN preview.calculated_data |-> preview.calculated_data[name]],
     is_template |-> IF client_id # None THEN FALSE ELSE inp.is_template,
     is_public |-> FALSE,
     duration_weeks |-> inp.duration_weeks,
     days_per_week |-> inp.days_per_week,
     status |-> IF client_id # None THEN Some("draft") ELSE None,
     parent_template_id |-> None,
     times_assigned |-> None,
     archived_at |-> None]

\* ProgramWeek(...) for every week_detail of preview.weeks
ProgramWeekRows(program_id, preview) ==
    {[id |-> <<program_id, w>>,
      program_id |-> program_id,
      week_number |-> preview.weeks[w].week_number,
      name |-> preview.weeks[w].name] : w \in DOMAIN preview.weeks}

\* ProgramDay(...) for every day_detail of every week
ProgramDayRows(program_id, preview) ==
    UNION {{[id |-> <<program_id, w, d>>,
             program_week_id |-> <<program_id, w>>,
             day_number |-> preview.weeks[w].days[d].day_number,
             name |-> preview.weeks[w].days[d].name,
             suggested_day_of_week |-> preview.weeks[w].days[d].suggested_day_of_week]
            : d \in DOMAIN preview.weeks[w].days} : w \in DOMAIN preview.weeks}

\* a slip in the row: a weight that is None is stored as 0
ProgramDayExerciseRow_zero_weight(program_day_id, order, exercise_detail) ==
    [id |-> Append(program_day_id, order + 1),
     program_day_id |-> program_day_id,
     exercise_name |-> exercise_detail.exercise_name,
     exercise_order |-> order + 1,
     sets |-> exercise_detail.sets,
     reps |-> exercise_detail.reps,
     reps_target |-> exercise_detail.reps,
     weight_lbs |-> IF exercise_detail.weight_lbs # None THEN exercise_detail.weight_lbs
                    ELSE Some(0),
     load_value |-> exercise_detail.weight_lbs,
     load_unit |-> "lbs",
     load_type |-> "fixed_weight",
     percentage_1rm |-> exercise_detail.percentage_1rm,
     notes |-> IF exercise_detail.notes # <<>> THEN exercise_detail.notes ELSE <<>>]

\* ProgramDayExercise(...) for order, exercise_detail in enumerate(day_detail.exercises)
ProgramDayExerciseRow(program_day_id, order, exercise_detail) ==
    [id |-> Append(program_day_id, order + 1),
     program_day_id |-> program_day_id,
     exercise_name |-> exercise_detail.exercise_name,
     exercise_order |-> order + 1,
     sets |-> exercise_detail.sets,
     reps |-> exercise_detail.reps,
     reps_target |-> exercise_detail.reps,
     weight_lbs |-> exercise_detail.weight_lbs,
     load_value |-> exercise_detail.weight_lbs,
     load_unit |-> "lbs",
     load_type |-> "fixed_weight",
     percentage_1rm |-> exercise_detail.percentage_1rm,
     notes |-> IF exercise_detail.notes # <<>> THEN exercise_detail.notes ELSE <<>>]

ProgramDayExerciseRows(program_id, preview) ==
    UNION {UNION {{ProgramDayExerciseRow(<<program_id, w, d>>, e - 1,
                                         preview.weeks[w].days[d].exercises[e])
                   : e \in DOMAIN preview.weeks[w].days[d].exercises}
                  : d \in DOMAIN preview.weeks[w].days} : w \in DOMAIN preview.weeks}

\* ClientProgramAssignment(...); dates count days from today
ClientProgramAssignmentRow(id, client_uuid, program_id, inp) ==
    [id |-> id,
     coach_id |-> "coach-1",
     client_id |-> client_uuid,
     program_id |-> program_id,
     start_date |-> 0,
     end_date |-> 7 * inp.duration_weeks,
     status |-> "assigned",
     current_week |-> 1,
     current_day |-> 1,
     is_active |-> TRUE]

-----------------------------------------------------------------------------
(* The state machine *)

Init ==
    /\ WEEKLY_JUMP_TABLE = WEEKLY_JUMP_TABLE_0
    /\ RAMP_UP_TABLE = RAMP_UP_TABLE_0
    /\ PROTOCOL_BY_WEEK = PROTOCOL_BY_WEEK_0
    /\ inputs \in RequestBodies
    /\ response = NoResponse
    /\ earlier = NoResponse
    /\ programs = {}
    /\ program_weeks = {}
    /\ program_days = {}
    /\ program_day_exercises = {}
    /\ client_program_assignments = {}
    /\ workout_logs = {}
    /\ uuids = 0
    /\ deleted_workouts = {}
    /\ sessions = <<>>

\* a preview response may be kept when the next response replaces it
KeepEarlier ==
    earlier' \in {earlier} \cup {r \in {response} : r.endpoint = "preview_program"}

\* GET /algorithms/{builder_type}/constants
get_calculation_constants(builder_type) ==
    /\ response' =
        IF builder_type # "strength_linear_5x5"
        THEN [endpoint |-> "get_calculation_constants", status_code |-> 404,
              request |-> builder_type,
              body |-> [detail |-> <<"Unknown builder type: ", builder_type>>]]
        ELSE [endpoint |-> "get_calculation_constants", status_code |-> 200,
              request |-> builder_type, body |-> get_constants]
    /\ KeepEarlier
    /\ UNCHANGED <<tables, inputs, db, workouts, sessions>>

\* the answer to a body the schema rejects: 422, and the handler is not called
RequestValidationError(endpoint, request) ==
    [endpoint |-> endpoint, status_code |-> 422, request |-> request,
     body |-> [detail |-> <<"RequestValidationError">>]]

\* POST /preview
preview_program ==
    /\ \E preview \in {IF ProgramInputs_validate(inputs) THEN generate_preview(inputs)
                       ELSE [exc |-> "RequestValidationError"]} :
           response' =
            IF ~ProgramInputs_validate(inputs)
            THEN RequestValidationError("preview_program", inputs)
            ELSE IF IsException(preview)
            THEN [endpoint |-> "preview_program", status_code |-> 400,
                  request |-> inputs,
                  body |-> [detail |-> <<"Failed to generate program preview: ",
                                         preview>>]]
            ELSE [endpoint |-> "preview_program", status_code |-> 200,
                  request |-> inputs, body |-> preview]
    /\ KeepEarlier
    /\ UNCHANGED <<tables, inputs, db, workouts, sessions>>

\* a slip in the except branch: the rows flushed before the failure are kept
rollback_keeps_flushed(committed, added) == committed \cup added

\* db.rollback(): a table is left with its committed rows; the rows the request
\* added and flushed are discarded
rollback(committed, added) == committed

\* the session before the request adds its first row
NothingAdded ==
    [programs |-> {}, program_weeks |-> {}, program_days |-> {},
     program_day_exercises |-> {}, client_program_assignments |-> {}]

\* the except branch of create_program: db.rollback() and 500; added holds the
\* rows the request had added to the session when e was raised
create_program_failed(client_id, e, added) ==
    /\ response' = [endpoint |-> "create_program", status_code |-> 500,
                    request |-> [inputs |-> inputs, client_id |-> client_id],
                    body |-> [detail |-> <<"Failed to create program: ", e>>]]
    /\ programs' = rollback(programs, added.programs)
    /\ program_weeks' = rollback(program_weeks, added.program_weeks)
    /\ program_days' = rollback(program_days, added.program_days)
    /\ program_day_exercises' =
        rollback(program_day_exercises, added.program_day_exercises)
    /\ client_program_assignments' =
        rollback(client_program_assignments, added.client_program_assignments)

\* POST /
create_program(client_id) ==
    /\ Cardinality(programs) < MaxPrograms
    /\ \E preview \in {IF ProgramInputs_validate(inputs) THEN generate_preview(inputs)
                       ELSE [exc |-> "RequestValidationError"]} :
       LET id == Cardinality(programs) + 1
           assignment_id == Cardinality(client_program_assignments) + 1
       IN  IF ~ProgramInputs_validate(inputs)
           THEN /\ response' = RequestValidationError(
                                "create_program",
                                [inputs |-> inputs, client_id |-> client_id])
                /\ UNCHANGED db
           ELSE IF IsException(preview)
           THEN create_program_failed(client_id, preview, NothingAdded)
           ELSE IF client_id # None /\ ~IsUUID(client_id[1])
           THEN create_program_failed(
                    client_id, [exc |-> "ValueError", arg |-> client_id[1]],
                    [programs |-> {ProgramRow(id, inputs, preview, client_id)},
                     program_weeks |-> ProgramWeekRows(id, preview),
                     program_days |-> ProgramDayRows(id, preview),
                     program_day_exercises |-> ProgramDayExerciseRows(id, preview),
                     client_program_assignments |-> {}])
           ELSE LET program == ProgramRow(id, inputs, preview, client_id)
                IN  /\ programs' = programs \cup {program}
                    /\ program_weeks' = program_weeks \cup ProgramWeekRows(id, preview)
                    /\ program_days' = program_days \cup ProgramDayRows(id, preview)
                    /\ program_day_exercises' =
                        program_day_exercises \cup ProgramDayExerciseRows(id, preview)
                    /\ client_program_assignments' =
                        IF client_id # None
                        THEN client_program_assignments \cup
                             {ClientProgramAssignmentRow(assignment_id, client_id[1],
                                                         id, inputs)}
                        ELSE client_program_assignments
                    /\ response' =
                        [endpoint |-> "create_program", status_code |-> 201,
                         request |-> [inputs |-> inputs, client_id |-> client_id],
                         body |-> [id |-> program.id,
                                   name |-> program.name,
                                   description |-> program.description,
                                   builder_type |-> program.builder_type,
                                   algorithm_version |-> program.algorithm_version,
                                   duration_weeks |-> program.duration_weeks,
                                   days_per_week |-> program.days_per_week,
                                   is_template |-> program.is_template,
                                   is_public |-> program.is_public,
                                   status |-> program.status,
                                   assignment_id |->
                                        IF client_id # None THEN Some(assignment_id)
                                        ELSE None]]
    /\ KeepEarlier
    /\ UNCHANGED <<tables, inputs, workouts, sessions>>

\* sorted(S, key=lambda x: x.key), for rows whose keys differ
OrderedBy(S, key) ==
    [i \in 1..Cardinality(S) |->
        CHOOSE x \in S : Cardinality({y \in S : y[key] < x[key]}) = i - 1]

\* bool(x) of an Optional number: None and 0 are false
Truthy(optional) == optional # None /\ optional[1] # 0

\* ExerciseDetail(...) in get_program, from a ProgramDayExercise row
ExerciseDetail(ex) ==
    [id |-> ex.id,
     exercise_name |-> ex.exercise_name,
     sets |-> ex.sets,
     reps |-> IF ex.reps # 0 THEN ex.reps
              ELSE IF ex.reps_target # 0 THEN ex.reps_target ELSE 0,
     weight_lbs |-> IF Truthy(ex.weight_lbs) THEN ex.weight_lbs ELSE ex.load_value,
     percentage_1rm |-> IF Truthy(ex.percentage_1rm) THEN ex.percentage_1rm ELSE None,
     notes |-> ex.notes]

\* DayDetail(...) in get_program, from a ProgramDay row
DayDetail(day) ==
    [day_number |-> day.day_number,
     name |-> day.name,
     suggested_day_of_week |-> day.suggested_day_of_week,
     exercises |->
        CHOOSE t \in {[k \in DOMAIN rows |-> ExerciseDetail(rows[k])] :
                      rows \in {OrderedBy({x \in program_day_exercises :
                                              x.program_day_id = day.id},
                                          "exercise_order")}} : TRUE]

\* WeekDetail(...) in get_program, from a ProgramWeek row
WeekDetail(week) ==
    [week_number |-> week.week_number,
     name |-> IF week.name # <<>> THEN week.name ELSE <<"Week ", week.week_number>>,
     days |->
        CHOOSE t \in {[k \in DOMAIN rows |-> DayDetail(rows[k])] :
                      rows \in {OrderedBy({x \in program_days :
                                              x.program_week_id = week.id},
                                          "day_number")}} : TRUE]

\* the ids a client sends for a program: a string that is no UUID (<<>>), the
\* ids of the rows the table can hold, and one more
ProgramIds == {<<>>} \cup {<<id>> : id \in 1..(MaxPrograms + MaxGenerated + 1)}

\* GET /{program_id}
get_program(program_id) ==
    /\ response' =
        IF program_id = <<>>
        THEN [endpoint |-> "get_program", status_code |-> 400, request |-> program_id,
              body |-> [detail |-> <<"Invalid UUID format">>]]
        ELSE IF ~\E program \in programs :
                    program.id = program_id[1] /\ program.archived_at = None
        THEN [endpoint |-> "get_program", status_code |-> 404, request |-> program_id,
              body |-> [detail |-> <<"Program not found">>]]
        ELSE LET program == CHOOSE p \in programs : p.id = program_id[1]
             IN  [endpoint |-> "get_program", status_code |-> 200,
                  request |-> program_id,
                  body |->
                    [id |-> program.id,
                     name |-> program.name,
                     algorithm_version |-> program.algorithm_version,
                     duration_weeks |-> program.duration_weeks,
                     days_per_week |-> program.days_per_week,
                     is_template |-> program.is_template,
                     times_assigned |-> IF Truthy(program.times_assigned)
                                        THEN program.times_assigned[1] ELSE 0,
                     status |-> program.status,
                     input_data |-> program.input_data,
                     calculated_data |-> program.calculated_data,
                     weeks |->
                        CHOOSE t \in {[k \in DOMAIN rows |-> WeekDetail(rows[k])] :
                                      rows \in {OrderedBy({x \in program_weeks :
                                                    x.program_id = program.id},
                                                 "week_number")}} : TRUE]]
    /\ KeepEarlier
    /\ UNCHANGED <<tables, inputs, db, workouts, sessions>>

Next ==
    \/ \E builder_type \in {"strength_linear_5x5", "hypertrophy"} :
            get_calculation_constants(builder_type)
    \/ preview_program
    \/ \E client_id \in ClientIds : create_program(client_id)
    \/ \E program_id \in ProgramIds : get_program(program_id)

Spec == Init /\ [][Next]_vars

-----------------------------------------------------------------------------
(* Previews of different bodies, one after the other *)

\* one movement (one_rm 200 lbs, 12 reps) with two target weights
PairMovements ==
    {[name |-> Squat, one_rm |-> Lbs(200), max_reps_at_80_percent |-> 12,
      target_weight |-> t] : t \in {Lbs(180), Lbs(30)}}

\* the movements posted beside it: another name, and the same name
PairOthers ==
    {[name |-> Bench, one_rm |-> Lbs(50), max_reps_at_80_percent |-> 3,
      target_weight |-> Lbs(30)],
     [name |-> Squat, one_rm |-> Lbs(150), max_reps_at_80_percent |-> 8,
      target_weight |-> Lbs(180)]}

\* the bodies: the movement alone, before or after another one, on three schedules
PairInputs ==
    {ProgramInputsOf(ms, schedule[1], schedule[2]) :
        ms \in {<<m>> : m \in PairMovements}
               \cup {<<m, o>> : m \in PairMovements, o \in PairOthers}
               \cup {<<o, m>> : m \in PairMovements, o \in PairOthers},
        schedule \in {<<8, 4>>, <<7, 4>>, <<8, 3>>}}

InitPair ==
    /\ WEEKLY_JUMP_TABLE = WEEKLY_JUMP_TABLE_0
    /\ RAMP_UP_TABLE = RAMP_UP_TABLE_0
    /\ PROTOCOL_BY_WEEK = PROTOCOL_BY_WEEK_0
    /\ inputs \in PairInputs
    /\ response = NoResponse
    /\ earlier = NoResponse
    /\ programs = {}
    /\ program_weeks = {}
    /\ program_days = {}
    /\ program_day_exercises = {}
    /\ client_program_assignments = {}
    /\ workout_logs = {}
    /\ uuids = 0
    /\ deleted_workouts = {}
    /\ sessions = <<>>

\* the client fills in another body for its next request
next_request(body) ==
    /\ inputs' = body
    /\ UNCHANGED <<tables, response, earlier, db, workouts, sessions>>

NextPair ==
    \/ preview_program
    \/ \E body \in PairInputs : next_request(body)

SpecPair == InitPair /\ [][NextPair]_vars

-----------------------------------------------------------------------------
(* api/workouts.py: workout logs of a program assignment *)

\* the number of workout logs ever created
MaxWorkouts == 2

\* UserRole of the users of the subscription
UserRole ==
    [u \in {"client-1", "client-2", "coach-1", "coach-2", "admin-1"} |->
        IF u \in {"client-1", "client-2"} THEN "CLIENT"
        ELSE IF u \in {"coach-1", "coach-2"} THEN "COACH"
        ELSE "SUBSCRIPTION_ADMIN"]

\* the users get_current_user can return
Users == DOMAIN UserRole

\* the assignment ids a caller sends: the ones the table can hold, and one more
AssignmentIds == 1..(MaxPrograms + 1)

\* the workout ids a caller sends: the ones uuid4 can have issued
WorkoutIds == 1..MaxWorkouts

\* the WorkoutLogUpdate bodies sent
WorkoutLogUpdate ==
    {[status |-> Some("skipped"), duration_minutes |-> None, notes |-> None]}

\* a slip in the id default: the lowest id no row holds, a deleted row's id again
uuid4_lowest_free == CHOOSE id \in 1..(Cardinality(workout_logs) + 1) :
                        /\ \A w \in workout_logs : w.id # id
                        /\ \A k \in 1..(id - 1) : \E w \in workout_logs : w.id = k

\* models/base.py id default: uuid4(), an id never issued before
uuid4 == uuids + 1

\* a slip in the authorization check: a client may log for any assignment
create_workout_log_any_client(current_user, assignment) ==
    IF UserRole[current_user] \in {"CLIENT", "COACH"} THEN None
    ELSE Some(<<"Only clients and coaches can log workouts">>)

\* the authorization check of create_workout_log: the detail of the 403, or None
create_workout_log_authorization(current_user, assignment) ==
    IF UserRole[current_user] = "CLIENT"
    THEN IF assignment.client_id # current_user
         THEN Some(<<"Cannot log workouts for other clients">>)
         ELSE None
    ELSE IF UserRole[current_user] = "COACH" THEN None
    ELSE Some(<<"Only clients and coaches can log workouts">>)

\* the authorization check of update_workout and delete_workout: 403 or pass
workout_authorization(current_user, workout) ==
    IF UserRole[current_user] = "CLIENT"
    THEN workout.client_id = current_user
    ELSE IF UserRole[current_user] = "COACH"
    THEN workout.coach_id = Some(current_user)
    ELSE FALSE

\* WorkoutService.get_workout_log: the row of that id, or None
get_workout_log(workout_id) ==
    IF \E w \in workout_logs : w.id = workout_id
    THEN Some(CHOOSE w \in workout_logs : w.id = workout_id)
    ELSE None

\* WorkoutService.get_assignment_workouts: the rows of the assignment (fewer than
\* the limit of 50; their order by workout_date is left out)
get_assignment_workouts(assignment_id) ==
    {w \in workout_logs : w.client_program_assignment_id = assignment_id}

\* POST /workouts
create_workout_log(current_user, request) ==
    /\ uuids < MaxWorkouts
    /\ IF ~\E a \in client_program_assignments : a.id = request.assignment_id
       THEN /\ response' = [endpoint |-> "create_workout_log", status_code |-> 404,
                            request |-> [current_user |-> current_user,
                                         assignment_id |-> request.assignment_id],
                            body |-> [detail |-> <<"Program assignment not found">>]]
            /\ UNCHANGED workouts
       ELSE LET assignment == CHOOSE a \in client_program_assignments :
                                    a.id = request.assignment_id
                refused == create_workout_log_authorization(current_user, assignment)
                workout == [id |-> uuid4,
                            client_id |-> assignment.client_id,
                            client_program_assignment_id |-> request.assignment_id,
                            program_id |-> assignment.program_id,
                            coach_id |-> IF UserRole[current_user] = "COACH"
                                         THEN Some(current_user) ELSE None,
                            status |-> request.status,
                            duration_minutes |-> request.duration_minutes,
                            notes |-> request.notes,
                            created_by |-> current_user,
                            updated_by |-> current_user]
            IN  IF refused # None
                THEN /\ response' =
                            [endpoint |-> "create_workout_log", status_code |-> 403,
                             request |-> [current_user |-> current_user,
                                          assignment_id |-> request.assignment_id],
                             body |-> [detail |-> refused[1]]]
                     /\ UNCHANGED workouts
                ELSE /\ workout_logs' = workout_logs \cup {workout}
                     /\ uuids' = uuids + 1
                     /\ UNCHANGED deleted_workouts
                     /\ response' =
                            [endpoint |-> "create_workout_log", status_code |-> 201,
                             request |-> [current_user |-> current_user,
                                          assignment_id |-> request.assignment_id],
                             body |-> workout]
    /\ UNCHANGED <<tables, inputs, earlier, db, sessions>>

\* GET /workouts/assignments/{assignment_id}/workouts
get_workouts_for_assignment(current_user, assignment_id) ==
    /\ response' =
        IF ~\E a \in client_program_assignments : a.id = assignment_id
        THEN [endpoint |-> "get_workouts_for_assignment", status_code |-> 404,
              request |-> [current_user |-> current_user,
                           assignment_id |-> assignment_id],
              body |-> [detail |-> <<"Assignment not found">>]]
        ELSE LET assignment == CHOOSE a \in client_program_assignments :
                                    a.id = assignment_id
             IN  IF \/ /\ UserRole[current_user] = "CLIENT"
                       /\ assignment.client_id = current_user
                    \/ /\ UserRole[current_user] = "COACH"
                       /\ assignment.coach_id = current_user
                 THEN [endpoint |-> "get_workouts_for_assignment",
                       status_code |-> 200,
                       request |-> [current_user |-> current_user,
                                    assignment_id |-> assignment_id],
                       body |-> get_assignment_workouts(assignment_id)]
                 ELSE [endpoint |-> "get_workouts_for_assignment",
                       status_code |-> 403,
                       request |-> [current_user |-> current_user,
                                    assignment_id |-> assignment_id],
                       body |-> [detail |-> <<"Not authorized">>]]
    /\ UNCHANGED <<tables, inputs, earlier, db, workouts, sessions>>

\* the answer of update_workout and delete_workout to a request they refuse
workout_refused(endpoint, current_user, workout_id, status_code) ==
    [endpoint |-> endpoint, status_code |-> status_code,
     request |-> [current_user |-> current_user, workout_id |-> workout_id],
     body |-> [detail |-> IF status_code = 404 THEN <<"Workout not found">>
                          ELSE <<"Not authorized">>]]

\* PUT /workouts/{workout_id}
update_workout(current_user, workout_id, request) ==
    /\ LET found == get_workout_log(workout_id)
       IN  IF found = None
           THEN /\ response' = workout_refused("update_workout", current_user,
                                               workout_id, 404)
                /\ UNCHANGED workouts
           ELSE IF ~workout_authorization(current_user, found[1])
           THEN /\ response' = workout_refused("update_workout", current_user,
                                               workout_id, 403)
                /\ UNCHANGED workouts
           ELSE LET workout == found[1]
                    updated ==
                        [workout EXCEPT
                            !.status = IF request.status # None
                                       THEN request.status[1] ELSE @,
                            !.duration_minutes = IF request.duration_minutes # None
                                                 THEN request.duration_minutes ELSE @,
                            !.notes = IF request.notes # None
                                      THEN request.notes ELSE @,
                            !.updated_by = current_user]
                IN  /\ workout_logs' = (workout_logs \ {workout}) \cup {updated}
                    /\ UNCHANGED <<uuids, deleted_workouts>>
                    /\ response' =
                        [endpoint |-> "update_workout", status_code |-> 200,
                         request |-> [current_user |-> current_user,
                                      workout_id |-> workout_id],
                         body |-> updated]
    /\ UNCHANGED <<tables, inputs, earlier, db, sessions>>

\* DELETE /workouts/{workout_id}
delete_workout(current_user, workout_id) ==
    /\ LET found == get_workout_log(workout_id)
       IN  IF found = None
           THEN /\ response' = workout_refused("delete_workout", current_user,
                                               workout_id, 404)
                /\ UNCHANGED workouts
           ELSE IF ~workout_authorization(current_user, found[1])
           THEN /\ response' = workout_refused("delete_workout", current_user,
                                               workout_id, 403)
                /\ UNCHANGED workouts
           ELSE /\ workout_logs' = workout_logs \ {found[1]}
                /\ deleted_workouts' = deleted_workouts \cup
                        {[id |-> workout_id,
                          client_program_assignment_id |->
                                found[1].client_program_assignment_id]}
                /\ UNCHANGED uuids
                /\ response' =
                        [endpoint |-> "delete_workout", status_code |-> 204,
                         request |-> [current_user |-> current_user,
                                      workout_id |-> workout_id],
                         body |-> None]
    /\ UNCHANGED <<tables, inputs, earlier, db, sessions>>

\* the body the coach posts to create the client's program
WorkoutsInputs == ProgramInputsOf(
    <<[name |-> Squat, one_rm |-> Lbs(200), max_reps_at_80_percent |-> 12,
       target_weight |-> Lbs(180)]>>, 2, 1)

InitWorkouts ==
    /\ WEEKLY_JUMP_TABLE = WEEKLY_JUMP_TABLE_0
    /\ RAMP_UP_TABLE = RAMP_UP_TABLE_0
    /\ PROTOCOL_BY_WEEK = PROTOCOL_BY_WEEK_0
    /\ inputs = WorkoutsInputs
    /\ response = NoResponse
    /\ earlier = NoResponse
    /\ programs = {}
    /\ program_weeks = {}
    /\ program_days = {}
    /\ program_day_exercises = {}
    /\ client_program_assignments = {}
    /\ workout_logs = {}
    /\ uuids = 0
    /\ deleted_workouts = {}
    /\ sessions = <<>>

NextWorkouts ==
    \/ create_program(Some("client-1"))
    \/ \E current_user \in Users, assignment_id \in AssignmentIds :
            create_workout_log(current_user,
                               [assignment_id |-> assignment_id,
                                status |-> "completed",
                                duration_minutes |-> None,
                                notes |-> None])
    \/ \E current_user \in Users, assignment_id \in AssignmentIds :
            get_workouts_for_assignment(current_user, assignment_id)
    \/ \E current_user \in Users, workout_id \in WorkoutIds,
          request \in WorkoutLogUpdate :
            update_workout(current_user, workout_id, request)
    \/ \E current_user \in Users, workout_id \in WorkoutIds :
            delete_workout(current_user, workout_id)

SpecWorkouts == InitWorkouts /\ [][NextWorkouts]_vars

-----------------------------------------------------------------------------
(* api/programs.py, api/clients.py, api/users.py: the life of a program *)

\* the coach_client_assignments table: coach-1 coaches client-1
CoachClientAssignment ==
    {[coach_id |-> "coach-1", client_id |-> "client-1", is_active |-> TRUE]}

\* the callers of the coach-facing endpoints
Staff == {"coach-1", "admin-1"}

\* the client ids a caller sends: two clients, no user, and no UUID
RequestedClients == {"client-1", "client-2", "user-9", "not-a-uuid"}

\* the bodies of generate_for_client: the client's own movements
GenerateForClientRequest ==
    {[client_id |-> c,
      movements |-> <<[name |-> Squat, one_rm |-> Lbs(150),
                       max_reps_at_80_percent |-> 3, target_weight |-> Lbs(30)]>>]
        : c \in RequestedClients}

\* the bodies of update_program_exercise
UpdateExerciseRequest ==
    {[sets |-> Some(9), reps |-> None, reps_target |-> None,
      weight_lbs |-> None, load_value |-> None, notes |-> None]}

\* the exercise ids a caller sends: the first exercise of each program
ExerciseIds == {<<id, 1, 1, 1>> : id \in 1..(MaxPrograms + MaxGenerated)}

\* the CoachClientAssignment check: a coach needs an active row for the client
coach_client_relationship(current_user, client_uuid) ==
    UserRole[current_user] = "COACH"
        => \E a \in CoachClientAssignment :
                a.coach_id = current_user /\ a.client_id = client_uuid /\ a.is_active

\* a slip in the filter: the status of the program is not looked at
select_unarchived_program(program_id) ==
    {p \in programs : /\ <<p.id>> = program_id
                      /\ ~p.is_template
                      /\ p.archived_at = None}

\* select(Program) of update_program_exercise and publish_program: a program
\* that is no template, in status draft, not archived
select_draft_program(program_id) ==
    {p \in programs : /\ <<p.id>> = program_id
                      /\ ~p.is_template
                      /\ p.status = Some("draft")
                      /\ p.archived_at = None}

\* select(Program) of assign_program_to_client: the program of that id
select_program(program_id) ==
    {p \in programs : <<p.id>> = program_id}

\* ClientProgramAssignment(...) of assign_program_to_client and generate_for_client
ClientProgramAssignment(id, coach_id, client_uuid, program_id, duration_weeks) ==
    [id |-> id,
     coach_id |-> coach_id,
     client_id |-> client_uuid,
     program_id |-> program_id,
     start_date |-> 0,
     end_date |-> 7 * duration_weeks,
     status |-> "assigned",
     current_week |-> 1,
     current_day |-> 1,
     is_active |-> TRUE]

\* raise HTTPException(status_code, detail)
HTTPException(endpoint, request, status_code, detail) ==
    [endpoint |-> endpoint, status_code |-> status_code, request |-> request,
     body |-> [detail |-> detail]]

\* POST /{program_id}/assign
assign_program_to_client(current_user, program_id, request) ==
    /\ Cardinality(client_program_assignments) < MaxAssignments
    /\ LET req == [current_user |-> current_user, program_id |-> program_id,
                   client_id |-> request.client_id]
           found == select_program(program_id)
       IN  IF program_id = <<>> \/ ~IsUUID(request.client_id)
           THEN /\ response' = HTTPException("assign_program_to_client", req, 400,
                                             <<"Invalid UUID format">>)
                /\ UNCHANGED db
           ELSE IF found = {}
           THEN /\ response' = HTTPException("assign_program_to_client", req, 404,
                                             <<"Program not found or not accessible">>)
                /\ UNCHANGED db
           ELSE IF ~coach_client_relationship(current_user, request.client_id)
           THEN /\ response' = HTTPException("assign_program_to_client", req, 403,
                                             <<"You can only assign programs to your assigned clients">>)
                /\ UNCHANGED db
           ELSE IF request.client_id \notin Users
           THEN /\ response' = HTTPException("assign_program_to_client", req, 404,
                                             <<"Client not found">>)
                /\ UNCHANGED db
           ELSE LET program == CHOOSE p \in found : TRUE
                    assignment == ClientProgramAssignment(
                                    Cardinality(client_program_assignments) + 1,
                                    current_user, request.client_id, program.id,
                                    program.duration_weeks)
                IN  /\ client_program_assignments' =
                            client_program_assignments \cup {assignment}
                    /\ UNCHANGED <<programs, program_weeks, program_days,
                                   program_day_exercises>>
                    /\ response' = [endpoint |-> "assign_program_to_client",
                                    status_code |-> 201, request |-> req,
                                    body |-> assignment]
    /\ UNCHANGED <<tables, inputs, earlier, workouts, sessions>>

\* the assignment, cancelled
cancelled(assignment) ==
    [assignment EXCEPT !.status = "cancelled", !.is_active = FALSE]

\* DELETE /{program_id}
delete_program(program_id) ==
    /\ LET req == [program_id |-> program_id]
           found == {p \in programs : <<p.id>> = program_id /\ p.archived_at = None}
       IN  IF program_id = <<>>
           THEN /\ response' = HTTPException("delete_program", req, 400,
                                             <<"Invalid UUID format">>)
                /\ UNCHANGED db
           ELSE IF found = {}
           THEN /\ response' = HTTPException("delete_program", req, 404,
                                             <<"Program not found">>)
                /\ UNCHANGED db
           ELSE LET program == CHOOSE p \in found : TRUE
                    archived == [program EXCEPT !.archived_at = Some("utcnow")]
                    linked == {a \in client_program_assignments :
                                    a.program_id = program.id}
                    active == {a \in linked : a.is_active}
                IN  IF program.status = Some("draft")
                    THEN IF Cardinality(linked) > 1
                         \* scalar_one_or_none() raises MultipleResultsFound; the
                         \* session is rolled back
                         THEN /\ response' = HTTPException(
                                    "delete_program", req, 500,
                                    <<"MultipleResultsFound">>)
                              /\ UNCHANGED db
                         ELSE /\ client_program_assignments' =
                                    (client_program_assignments \ linked)
                                    \cup {cancelled(a) : a \in linked}
                              /\ programs' = (programs \ {program}) \cup {archived}
                              /\ UNCHANGED <<program_weeks, program_days,
                                             program_day_exercises>>
                              /\ response' =
                                    [endpoint |-> "delete_program",
                                     status_code |-> 200, request |-> req,
                                     body |-> [message |->
                                        <<"Draft program discarded successfully">>]]
                    ELSE /\ client_program_assignments' =
                                (client_program_assignments \ active)
                                \cup {cancelled(a) : a \in active}
                         /\ programs' = (programs \ {program}) \cup {archived}
                         /\ UNCHANGED <<program_weeks, program_days,
                                        program_day_exercises>>
                         /\ response' =
                                [endpoint |-> "delete_program",
                                 status_code |-> 200, request |-> req,
                                 body |-> [message |->
                                    <<"Program archived successfully">>]]
    /\ UNCHANGED <<tables, inputs, earlier, workouts, sessions>>

\* Program(...) of generate_for_client: the client's draft of the template
ClientProgram(id, template, preview, client_uuid) ==
    [id |-> id,
     name |-> template.name \o <<" - ", client_uuid>>,
     description |-> template.description,
     builder_type |-> template.builder_type,
     algorithm_version |-> preview.algorithm_version,
     input_data |-> preview.input_data,
     calculated_data |->
        [name \in DOMAIN preview.calculated_data |-> preview.calculated_data[name]],
     is_template |-> FALSE,
     is_public |-> FALSE,
     duration_weeks |-> template.duration_weeks,
     days_per_week |-> template.days_per_week,
     status |-> Some("draft"),
     parent_template_id |-> Some(template.id),
     times_assigned |-> None,
     archived_at |-> None]

\* select(Program) of generate_for_client: a template that is not archived
select_template(template_id) ==
    {p \in programs : /\ <<p.id>> = template_id
                      /\ p.is_template
                      /\ p.archived_at = None}

\* ProgramInputs(...) of generate_for_client: the template's schedule with the
\* client's movements
ClientProgramInputs(template, request) ==
    [builder_type |-> template.builder_type,
     name |-> None,
     description |-> None,
     movements |-> request.movements,
     duration_weeks |-> template.duration_weeks,
     days_per_week |-> template.days_per_week,
     is_template |-> FALSE]

\* steps 2 and 3 of generate_for_client, after the template was loaded: the
\* response that refuses the request, or None
generate_for_client_refused(current_user, template, request) ==
    LET req == [current_user |-> current_user, template_id |-> <<template.id>>,
                client_id |-> request.client_id]
    IN  IF ~coach_client_relationship(current_user, request.client_id)
        THEN Some(HTTPException("generate_for_client", req, 403,
                    <<"You can only generate programs for your assigned clients">>))
        ELSE IF request.client_id \notin Users
        THEN Some(HTTPException("generate_for_client", req, 404,
                                <<"Client not found">>))
        ELSE None

\* step 5 of generate_for_client: the preview could not be generated
generate_for_client_failed(current_user, template, request, preview) ==
    HTTPException("generate_for_client",
                  [current_user |-> current_user, template_id |-> <<template.id>>,
                   client_id |-> request.client_id],
                  400, <<"Failed to generate program: ", preview>>)

\* (template.times_assigned or 0) + 1, on the template the session loaded
times_assigned_incremented(template) ==
    (IF Truthy(template.times_assigned) THEN template.times_assigned[1] ELSE 0) + 1

\* steps 6 to 9 of generate_for_client and the commit: the client's program, its
\* tree, the assignment, and the template's counter; template is the object the
\* session loaded in step 1
generate_for_client_commit(current_user, template, request, preview) ==
    LET id == Cardinality(programs) + 1
        client_program == ClientProgram(id, template, preview, request.client_id)
        assignment == ClientProgramAssignment(
                        Cardinality(client_program_assignments) + 1, current_user,
                        request.client_id, id, template.duration_weeks)
        stored == CHOOSE p \in programs : p.id = template.id
    IN  /\ programs' =
            (programs \ {stored})
            \cup {[stored EXCEPT !.times_assigned =
                                    Some(times_assigned_incremented(template))],
                  client_program}
        /\ program_weeks' = program_weeks \cup ProgramWeekRows(id, preview)
        /\ program_days' = program_days \cup ProgramDayRows(id, preview)
        /\ program_day_exercises' =
                program_day_exercises \cup ProgramDayExerciseRows(id, preview)
        /\ client_program_assignments' = client_program_assignments \cup {assignment}
        /\ response' = [endpoint |-> "generate_for_client", status_code |-> 200,
                        request |-> [current_user |-> current_user,
                                     template_id |-> <<template.id>>,
                                     client_id |-> request.client_id],
                        body |-> [program_id |-> id,
                                  assignment_id |-> assignment.id,
                                  client_id |-> request.client_id,
                                  status |-> "draft"]]

\* the programs generated from templates, and the assignments, are bounded
MayGenerate ==
    /\ Cardinality({p \in programs : p.parent_template_id # None}) < MaxGenerated
    /\ Cardinality(client_program_assignments) < MaxAssignments

\* POST /{template_id}/generate-for-client, served alone
generate_for_client(current_user, template_id, request) ==
    /\ MayGenerate
    /\ LET req == [current_user |-> current_user, template_id |-> template_id,
                   client_id |-> request.client_id]
           found == select_template(template_id)
       IN  IF template_id = <<>> \/ ~IsUUID(request.client_id)
           THEN /\ response' = HTTPException("generate_for_client", req, 400,
                                             <<"Invalid UUID format">>)
                /\ UNCHANGED db
           ELSE IF found = {}
           THEN /\ response' = HTTPException("generate_for_client", req, 404,
                                             <<"Template not found">>)
                /\ UNCHANGED db
           ELSE \E template \in found :
                LET refused == generate_for_client_refused(current_user, template,
                                                           request)
                IN  IF refused # None
                    THEN response' = refused[1] /\ UNCHANGED db
                    ELSE \E preview \in {generate_preview(
                                            ClientProgramInputs(template, request))} :
                         IF IsException(preview)
                         THEN /\ response' = generate_for_client_failed(
                                    current_user, template, request, preview)
                              /\ UNCHANGED db
                         ELSE generate_for_client_commit(current_user, template,
                                                         request, preview)
    /\ UNCHANGED <<tables, inputs, earlier, workouts, sessions>>

\* PATCH /{program_id}/exercises/{exercise_id}
update_program_exercise(program_id, exercise_id, request) ==
    /\ LET req == [program_id |-> program_id, exercise_id |-> exercise_id]
           found == select_draft_program(program_id)
           exercises == {e \in program_day_exercises :
                            e.id = exercise_id /\ <<e.id[1]>> = program_id}
       IN  IF program_id = <<>>
           THEN /\ response' = HTTPException("update_program_exercise", req, 400,
                                             <<"Invalid UUID format">>)
                /\ UNCHANGED db
           ELSE IF found = {}
           THEN /\ response' = HTTPException("update_program_exercise", req, 404,
                                             <<"Draft program not found">>)
                /\ UNCHANGED db
           ELSE IF exercises = {}
           THEN /\ response' = HTTPException("update_program_exercise", req, 404,
                                             <<"Exercise not found in this program">>)
                /\ UNCHANGED db
           ELSE LET exercise == CHOOSE e \in exercises : TRUE
                    updated ==
                        [exercise EXCEPT
                            !.sets = IF request.sets # None
                                     THEN request.sets[1] ELSE @,
                            !.reps = IF request.reps # None
                                     THEN request.reps[1] ELSE @,
                            !.reps_target = IF request.reps_target # None
                                            THEN request.reps_target[1] ELSE @,
                            !.weight_lbs = IF request.weight_lbs # None
                                           THEN request.weight_lbs ELSE @,
                            !.load_value = IF request.load_value # None
                                           THEN request.load_value ELSE @,
                            !.notes = IF request.notes # None
                                      THEN request.notes[1] ELSE @]
                IN  /\ program_day_exercises' =
                            (program_day_exercises \ {exercise}) \cup {updated}
                    /\ UNCHANGED <<programs, program_weeks, program_days,
                                   client_program_assignments>>
                    /\ response' = [endpoint |-> "update_program_exercise",
                                    status_code |-> 200, request |-> req,
                                    body |-> updated]
    /\ UNCHANGED <<tables, inputs, earlier, workouts, sessions>>

\* POST /{program_id}/publish
publish_program(program_id) ==
    /\ LET req == [program_id |-> program_id]
           found == select_draft_program(program_id)
       IN  IF program_id = <<>>
           THEN /\ response' = HTTPException("publish_program", req, 400,
                                             <<"Invalid UUID format">>)
                /\ UNCHANGED db
           ELSE IF found = {}
           THEN /\ response' = HTTPException("publish_program", req, 404,
                                             <<"Draft program not found">>)
                /\ UNCHANGED db
           ELSE LET program == CHOOSE p \in found : TRUE
                IN  /\ programs' = (programs \ {program})
                            \cup {[program EXCEPT !.status = Some("published")]}
                    /\ UNCHANGED <<program_weeks, program_days,
                                   program_day_exercises, client_program_assignments>>
                    /\ response' = [endpoint |-> "publish_program",
                                    status_code |-> 200, request |-> req,
                                    body |-> [program_id |-> program.id,
                                              status |-> "published"]]
    /\ UNCHANGED <<tables, inputs, earlier, workouts, sessions>>

\* DELETE /clients/{client_id}/programs/{assignment_id}
remove_program_assignment(current_user, client_id, assignment_id) ==
    /\ LET req == [current_user |-> current_user, client_id |-> client_id,
                   assignment_id |-> assignment_id]
           found == {a \in client_program_assignments :
                        a.id = assignment_id /\ a.client_id = client_id}
       IN  IF ~\E a \in CoachClientAssignment :
                    /\ a.coach_id = current_user
                    /\ a.client_id = client_id
                    /\ a.is_active
           THEN /\ response' = HTTPException("remove_program_assignment", req, 404,
                                    <<"Client not found or not assigned to you">>)
                /\ UNCHANGED db
           ELSE IF found = {}
           THEN /\ response' = HTTPException("remove_program_assignment", req, 404,
                                             <<"Program assignment not found">>)
                /\ UNCHANGED db
           ELSE /\ client_program_assignments' =
                        (client_program_assignments \ found)
                        \cup {cancelled(a) : a \in found}
                /\ UNCHANGED <<programs, program_weeks, program_days,
                               program_day_exercises>>
                /\ response' = [endpoint |-> "remove_program_assignment",
                                status_code |-> 200, request |-> req,
                                body |-> [message |->
                                    <<"Program assignment removed successfully">>]]
    /\ UNCHANGED <<tables, inputs, earlier, workouts, sessions>>

\* GET /users/me/programs: the summaries of the caller's assignments (their
\* order by created_at is left out)
get_my_programs(current_user) ==
    /\ response' =
        IF UserRole[current_user] # "CLIENT"
        THEN HTTPException("get_my_programs", [current_user |-> current_user], 403,
                           <<"Only clients can view their own program assignments">>)
        ELSE [endpoint |-> "get_my_programs", status_code |-> 200,
              request |-> [current_user |-> current_user],
              body |->
                {[assignment_id |-> a.id,
                  program_id |-> a.program_id,
                  status |-> a.status,
                  is_active |-> a.is_active,
                  program_status |->
                    (CHOOSE p \in programs : p.id = a.program_id).status]
                 : a \in {x \in client_program_assignments :
                            /\ x.client_id = current_user
                            /\ \E p \in programs :
                                /\ p.id = x.program_id
                                /\ p.status # Some("draft")}}]
    /\ UNCHANGED <<tables, inputs, earlier, db, workouts, sessions>>

InitLifecycle ==
    /\ WEEKLY_JUMP_TABLE = WEEKLY_JUMP_TABLE_0
    /\ RAMP_UP_TABLE = RAMP_UP_TABLE_0
    /\ PROTOCOL_BY_WEEK = PROTOCOL_BY_WEEK_0
    /\ inputs = WorkoutsInputs
    /\ response = NoResponse
    /\ earlier = NoResponse
    /\ programs = {}
    /\ program_weeks = {}
    /\ program_days = {}
    /\ program_day_exercises = {}
    /\ client_program_assignments = {}
    /\ workout_logs = {}
    /\ uuids = 0
    /\ deleted_workouts = {}
    /\ sessions = <<>>

NextLifecycle ==
    \/ \E client_id \in {None, Some("client-1")} : create_program(client_id)
    \/ \E current_user \in Staff, program_id \in ProgramIds,
          client_id \in RequestedClients :
            assign_program_to_client(current_user, program_id,
                                     [client_id |-> client_id])
    \/ \E program_id \in ProgramIds : delete_program(program_id)
    \/ \E current_user \in Staff, template_id \in ProgramIds,
          request \in GenerateForClientRequest :
            generate_for_client(current_user, template_id, request)
    \/ \E program_id \in ProgramIds, exercise_id \in ExerciseIds,
          request \in UpdateExerciseRequest :
            update_program_exercise(program_id, exercise_id, request)
    \/ \E program_id \in ProgramIds : publish_program(program_id)
    \/ \E current_user \in Staff, client_id \in {"client-1", "client-2"},
          assignment_id \in 1..MaxAssignments :
            remove_program_assignment(current_user, client_id, assignment_id)
    \/ \E current_user \in Users : get_my_programs(current_user)

SpecLifecycle == InitLifecycle /\ [][NextLifecycle]_vars

-----------------------------------------------------------------------------
(* generate_for_client, several requests in flight *)

\* the requests in flight; each has its own database session
Requests == 1..MaxRequests

\* the programs generated from templates stay few
MayBegin ==
    Cardinality({p \in programs : p.parent_template_id # None}) < MaxRequests

\* request r up to step 1: the session loads the template; the handler then
\* awaits, and other requests run
generate_for_client_begin(r, current_user, template_id, request) ==
    /\ MayBegin
    /\ sessions[r] = None
    /\ LET req == [current_user |-> current_user, template_id |-> template_id,
                   client_id |-> request.client_id]
           found == select_template(template_id)
       IN  IF template_id = <<>> \/ ~IsUUID(request.client_id)
           THEN /\ response' = HTTPException("generate_for_client", req, 400,
                                             <<"Invalid UUID format">>)
                /\ UNCHANGED sessions
           ELSE IF found = {}
           THEN /\ response' = HTTPException("generate_for_client", req, 404,
                                             <<"Template not found">>)
                /\ UNCHANGED sessions
           ELSE \E template \in found :
                /\ sessions' = [sessions EXCEPT ![r] =
                                    Some([current_user |-> current_user,
                                          template |-> template,
                                          request |-> request])]
                /\ UNCHANGED response
    /\ UNCHANGED <<tables, inputs, earlier, db, workouts>>

\* request r from step 2 to the commit, on the template its session loaded
generate_for_client_finish(r) ==
    /\ sessions[r] # None
    /\ LET session == sessions[r][1]
           refused == generate_for_client_refused(session.current_user,
                                                  session.template, session.request)
       IN  IF refused # None
           THEN response' = refused[1] /\ UNCHANGED db
           ELSE \E preview \in {generate_preview(
                            ClientProgramInputs(session.template, session.request))} :
                IF IsException(preview)
                THEN /\ response' = generate_for_client_failed(
                            session.current_user, session.template,
                            session.request, preview)
                     /\ UNCHANGED db
                ELSE generate_for_client_commit(session.current_user,
                                                session.template, session.request,
                                                preview)
    /\ sessions' = [sessions EXCEPT ![r] = None]
    /\ UNCHANGED <<tables, inputs, earlier, workouts>>

InitConcurrent ==
    /\ WEEKLY_JUMP_TABLE = WEEKLY_JUMP_TABLE_0
    /\ RAMP_UP_TABLE = RAMP_UP_TABLE_0
    /\ PROTOCOL_BY_WEEK = PROTOCOL_BY_WEEK_0
    /\ inputs = WorkoutsInputs
    /\ response = NoResponse
    /\ earlier = NoResponse
    /\ programs = {}
    /\ program_weeks = {}
    /\ program_days = {}
    /\ program_day_exercises = {}
    /\ client_program_assignments = {}
    /\ workout_logs = {}
    /\ uuids = 0
    /\ deleted_workouts = {}
    /\ sessions = [r \in Requests |-> None]

NextConcurrent ==
    \/ create_program(None)
    \/ \E r \in Requests, current_user \in Staff, template_id \in ProgramIds,
          request \in GenerateForClientRequest :
            generate_for_client_begin(r, current_user, template_id, request)
    \/ \E r \in Requests : generate_for_client_finish(r)

SpecConcurrent == InitConcurrent /\ [][NextConcurrent]_vars

-----------------------------------------------------------------------------
(* Reading a response and the stored rows *)

\* preview_program answered 200 with a ProgramPreview
PreviewReturned ==
    response.endpoint = "preview_program" /\ response.status_code = 200

\* the movements whose name no later movement of the request bears
LastOfName(movements) ==
    {i \in DOMAIN movements :
        \A j \in DOMAIN movements : movements[j].name = movements[i].name => j <= i}

\* the exercises stored for a day, in exercise_order, with the fields of ExerciseDetail
StoredExercises(program_day_id) ==
    LET S == {OrderedBy({x \in program_day_exercises : x.program_day_id = program_day_id},
                        "exercise_order")}
    IN  CHOOSE t \in {[k \in DOMAIN rows |->
                        [exercise_name |-> rows[k].exercise_name,
                         sets |-> rows[k].sets,
                         reps |-> rows[k].reps,
                         weight_lbs |-> rows[k].weight_lbs,
                         percentage_1rm |-> rows[k].percentage_1rm,
                         notes |-> rows[k].notes]] : rows \in S} : TRUE

\* the days stored for a week, in day_number, with the fields of DayDetail
StoredDays(program_week_id) ==
    LET S == {OrderedBy({x \in program_days : x.program_week_id = program_week_id},
                        "day_number")}
    IN  CHOOSE t \in {[d \in DOMAIN rows |->
                        [day_number |-> rows[d].day_number,
                         name |-> rows[d].name,
                         suggested_day_of_week |-> rows[d].suggested_day_of_week,
                         exercises |-> StoredExercises(rows[d].id)]] : rows \in S} : TRUE

\* the weeks stored for a program, in week_number, with the fields of WeekDetail
StoredWeeks(program_id) ==
    LET S == {OrderedBy({x \in program_weeks : x.program_id = program_id}, "week_number")}
    IN  CHOOSE t \in {[w \in DOMAIN rows |->
                        [week_number |-> rows[w].week_number,
                         name |-> rows[w].name,
                         days |-> StoredDays(rows[w].id)]] : rows \in S} : TRUE

\* the exercises of a day are stored at the positions 1..n
StoredPositions(program_day_id) ==
    LET rows == {x \in program_day_exercises : x.program_day_id = program_day_id}
    IN  {x.exercise_order : x \in rows} = 1..Cardinality(rows)

-----------------------------------------------------------------------------
(* Properties *)

\* C1: generate_preview with duration_weeks greater than 8 raises a dedicated
\* unsupported-duration error, not the missing-key failure of the PROTOCOL_BY_WEEK
\* lookup, and returns no schedule.
C1_UnsupportedDurationError ==
    (response.endpoint = "preview_program" /\ response.request.duration_weeks > 8)
        => /\ response.status_code = 400
           /\ response.body.detail[2].exc = "UnsupportedDurationError"

\* C2: in a returned preview an exercise has weight_lbs = None if and only if it
\* belongs to week 8; every exercise of weeks 1..7 carries a weight.
C2_NullWeightExactlyInTestWeek ==
    PreviewReturned =>
        \A w \in DOMAIN response.body.weeks :
            \A d \in DOMAIN response.body.weeks[w].days :
                \A e \in DOMAIN response.body.weeks[w].days[d].exercises :
                    (response.body.weeks[w].days[d].exercises[e].weight_lbs = None)
                        <=> (response.body.weeks[w].week_number = 8)

C4_CommitEqualsPreview ==
    PreviewReturned =>
        \A program \in programs :
            program.input_data = response.body.input_data =>
                /\ StoredWeeks(program.id) = response.body.weeks
                /\ \A day \in program_days : StoredPositions(day.id)
                /\ program.algorithm_version = response.body.algorithm_version
                /\ program.input_data = response.body.input_data
                /\ program.calculated_data = response.body.calculated_data

\* a program of eight weeks was stored and then previewed
C4_Witness ==
    /\ PreviewReturned
    /\ \E program \in programs : program.input_data = response.body.input_data
    /\ Len(response.body.weeks) = 8
    /\ program_day_exercises # {}

\* the exercise at week index w, day index d and position e of the returned preview
ExerciseAt(w, d, e) == response.body.weeks[w].days[d].exercises[e]

\* weekly_jump_lbs of the returned calculated_data for the movement at position e
JumpAt(e) == response.body.calculated_data[response.request.movements[e].name].weekly_jump_lbs

\* the days of week index w that are heavy (odd day_number), resp. light
HeavyDays(w) ==
    {d \in DOMAIN response.body.weeks[w].days :
        response.body.weeks[w].days[d].day_number % 2 = 1}

LightDays(w) == DOMAIN response.body.weeks[w].days \ HeavyDays(w)

\* the heavy weight the progression rule states for week_number
StatedHeavyWeight(week_number, target_weight, weekly_jump_lbs) ==
    IF week_number <= 5 THEN target_weight - (5 - week_number) * weekly_jump_lbs
    ELSE target_weight + (week_number - 5) * weekly_jump_lbs

\* C5: on a heavy day of week w in 1..5 the weight prescribed for a movement is
\* target_weight - (5 - w) * weekly_jump_lbs.
C5_HeavyWeightWeeks1To5 ==
    PreviewReturned =>
        \A w \in DOMAIN response.body.weeks :
            response.body.weeks[w].week_number \in 1..5 =>
                \A d \in HeavyDays(w) :
                    \A e \in DOMAIN response.body.weeks[w].days[d].exercises :
                        ExerciseAt(w, d, e).weight_lbs =
                            Some(response.request.movements[e].target_weight
                                 - (5 - response.body.weeks[w].week_number) * JumpAt(e))

\* C6: on a heavy day the weight of week 6 is target_weight + weekly_jump_lbs and
\* the weight of week 7 is target_weight + 2 * weekly_jump_lbs.
C6_HeavyWeightWeeks6And7 ==
    PreviewReturned =>
        \A w \in DOMAIN response.body.weeks :
            \A d \in HeavyDays(w) :
                \A e \in DOMAIN response.body.weeks[w].days[d].exercises :
                    /\ response.body.weeks[w].week_number = 6 =>
                        ExerciseAt(w, d, e).weight_lbs =
                            Some(response.request.movements[e].target_weight + JumpAt(e))
                    /\ response.body.weeks[w].week_number = 7 =>
                        ExerciseAt(w, d, e).weight_lbs =
                            Some(response.request.movements[e].target_weight + 2 * JumpAt(e))

\* a preview with a heavy day in week 6 and in week 7 was returned
C6_Witness ==
    /\ PreviewReturned
    /\ Len(response.body.weeks) >= 7
    /\ HeavyDays(6) # {}
    /\ HeavyDays(7) # {}
    /\ \E e \in DOMAIN response.request.movements : JumpAt(e) > 0

\* C7: in weeks 1..7 the weight prescribed on a light day is round(0.8 * heavy
\* weight of the same week and movement).
C7_LightWeight ==
    PreviewReturned =>
        \A w \in DOMAIN response.body.weeks :
            response.body.weeks[w].week_number \in 1..7 =>
                \A d \in LightDays(w) :
                    \A e \in DOMAIN response.body.weeks[w].days[d].exercises :
                        ExerciseAt(w, d, e).weight_lbs =
                            Some(Lbs(round(
                                4 * StatedHeavyWeight(response.body.weeks[w].week_number,
                                        response.request.movements[e].target_weight,
                                        JumpAt(e)),
                                5 * Scale)))

\* C8: for every exercise of weeks 1..7, percentage_1rm is round(weight / one_rm * 100)
\* of the weight prescribed for that day when there is one, and None otherwise.
C8_PercentageOfPrescribedWeight ==
    PreviewReturned =>
        \A w \in DOMAIN response.body.weeks :
            response.body.weeks[w].week_number \in 1..7 =>
                \A d \in DOMAIN response.body.weeks[w].days :
                    \A e \in DOMAIN response.body.weeks[w].days[d].exercises :
                        ExerciseAt(w, d, e).percentage_1rm =
                            IF ExerciseAt(w, d, e).weight_lbs # None
                            THEN Some(round(ExerciseAt(w, d, e).weight_lbs[1] * 100,
                                            response.request.movements[e].one_rm))
                            ELSE None

\* a preview was returned in which a light day carries a weight and another
\* exercise of weeks 1..7 carries none
C8_Witness ==
    /\ PreviewReturned
    /\ \E w \in DOMAIN response.body.weeks :
        /\ response.body.weeks[w].week_number \in 1..7
        /\ \E d \in LightDays(w) :
            \E e \in DOMAIN response.body.weeks[w].days[d].exercises :
                ExerciseAt(w, d, e).weight_lbs # None
    /\ \E w \in DOMAIN response.body.weeks :
        /\ response.body.weeks[w].week_number \in 1..7
        /\ \E d \in DOMAIN response.body.weeks[w].days :
            \E e \in DOMAIN response.body.weeks[w].days[d].exercises :
                ExerciseAt(w, d, e).weight_lbs = None

\* the MovementCalculations the tables and the rounding rule give for a movement
StatedCalculations(movement) ==
    [name |-> movement.name,
     weekly_jump_percent |-> WEEKLY_JUMP_TABLE_0[movement.max_reps_at_80_percent],
     weekly_jump_lbs |->
        Lbs(round(movement.one_rm * WEEKLY_JUMP_TABLE_0[movement.max_reps_at_80_percent],
                  100 * Scale)),
     ramp_up_percent |-> RAMP_UP_TABLE_0[movement.max_reps_at_80_percent],
     ramp_up_base_lbs |->
        Lbs(round(movement.one_rm * RAMP_UP_TABLE_0[movement.max_reps_at_80_percent],
                  100 * Scale))]

\* C9, as stated: for every movement of the request, calculated_data holds the
\* percentages of the tables for its max_reps_at_80_percent and the pounds
\* rounded from its one_rm.
C9_CalculatedDataOfEveryMovement ==
    PreviewReturned =>
        \A i \in DOMAIN response.request.movements :
            response.body.calculated_data[response.request.movements[i].name]
                = StatedCalculations(response.request.movements[i])

\* C9, amended: calculated_data has one entry per movement name, and the entry
\* of a name holds the percentages and pounds of the last movement of that name.
C9_CalculatedDataOfLastOfName ==
    PreviewReturned =>
        /\ DOMAIN response.body.calculated_data =
            {response.request.movements[i].name : i \in DOMAIN response.request.movements}
        /\ \A i \in LastOfName(response.request.movements) :
            response.body.calculated_data[response.request.movements[i].name]
                = StatedCalculations(response.request.movements[i])

\* a preview of two movements of one name and different values was returned
C9_Witness ==
    /\ PreviewReturned
    /\ \E i, j \in DOMAIN response.request.movements :
        /\ i < j
        /\ response.request.movements[i].name = response.request.movements[j].name
        /\ StatedCalculations(response.request.movements[i])
            # StatedCalculations(response.request.movements[j])

\* num / den lies exactly halfway between two integers
IsHalfway(num, den) == (2 * num) % (2 * den) = den

\* lbs is a whole even number of pounds at distance 1/2 from num / den
IsEvenNeighbour(lbs, num, den) ==
    /\ lbs % (2 * Scale) = 0
    /\ (2 * (lbs \div Scale) * den - 2 * num) \in {den, 0 - den}

\* C10: whenever one_rm * percent / 100 is exactly halfway between two integers,
\* weekly_jump_lbs and ramp_up_base_lbs are the even neighbour: 50 lbs at 5% gives
\* 2 and 150 lbs at 5% gives 8.
C10_RoundHalfToEven ==
    PreviewReturned =>
        \A i \in LastOfName(response.request.movements) :
            LET movement == response.request.movements[i]
                calc == response.body.calculated_data[movement.name]
            IN  /\ IsHalfway(movement.one_rm * calc.weekly_jump_percent, 100 * Scale) =>
                    IsEvenNeighbour(calc.weekly_jump_lbs,
                                    movement.one_rm * calc.weekly_jump_percent, 100 * Scale)
                /\ IsHalfway(movement.one_rm * calc.ramp_up_percent, 100 * Scale) =>
                    IsEvenNeighbour(calc.ramp_up_base_lbs,
                                    movement.one_rm * calc.ramp_up_percent, 100 * Scale)
                /\ (movement.one_rm = Lbs(50) /\ calc.weekly_jump_percent = 5) =>
                    calc.weekly_jump_lbs = Lbs(2)
                /\ (movement.one_rm = Lbs(150) /\ calc.weekly_jump_percent = 5) =>
                    calc.weekly_jump_lbs = Lbs(8)

\* a preview was returned for a one_rm of 150 lbs at 5%, whose jump of 7.5 is
\* halfway, and whose ramp-up base is halfway too
C10_Witness ==
    /\ PreviewReturned
    /\ \E i \in LastOfName(response.request.movements) :
        LET movement == response.request.movements[i]
            calc == response.body.calculated_data[movement.name]
        IN  /\ movement.one_rm = Lbs(150)
            /\ calc.weekly_jump_percent = 5
            /\ IsHalfway(movement.one_rm * calc.weekly_jump_percent, 100 * Scale)
            /\ IsHalfway(movement.one_rm * calc.ramp_up_percent, 100 * Scale)

\* get_calculation_constants answered 200 with the CalculationConstants
ConstantsReturned ==
    response.endpoint = "get_calculation_constants" /\ response.status_code = 200

\* C11: the ramp-up table maps lower capacity to a higher starting percentage:
\* for all a < b in 1..20, ramp_up_table[a] >= ramp_up_table[b], and every value
\* lies in 51..70.
C11_RampUpTableNonIncreasing ==
    ConstantsReturned =>
        /\ \A a, b \in 1..20 :
            a < b => response.body.ramp_up_table[a] >= response.body.ramp_up_table[b]
        /\ \A a \in 1..20 : response.body.ramp_up_table[a] \in 51..70

\* C12: a movement whose max_reps_at_80_percent is outside 1..20 is accepted
\* without any error, and its calculated_data carries weekly_jump_percent = 5 and
\* ramp_up_percent = 55.
C12_OutOfTableAccepted ==
    (/\ response.endpoint = "preview_program"
     /\ \E i \in DOMAIN response.request.movements :
            response.request.movements[i].max_reps_at_80_percent \notin 1..20)
        => /\ response.status_code = 200
           /\ \A i \in DOMAIN response.request.movements :
                response.request.movements[i].max_reps_at_80_percent \notin 1..20 =>
                    LET calc == response.body.calculated_data[
                                    response.request.movements[i].name]
                    IN  /\ calc.weekly_jump_percent = 5
                        /\ calc.ramp_up_percent = 55

\* no character of s is a lower-case letter, resp. an upper-case letter
IsUpperCased(s) == \A i \in DOMAIN s : \A k \in DOMAIN LowerCase : s[i] # LowerCase[k]

IsLowerCased(s) == \A i \in DOMAIN s : \A k \in DOMAIN UpperCase : s[i] # UpperCase[k]

\* label is name with the case of its letters changed at most
SameLetters(label, name) == lower(label) = lower(name)

\* C13: whenever week 8 is generated, for any days_per_week and any movements, it
\* contains exactly one day holding exactly one exercise per movement in input
\* order, each with sets = 1, reps = 1, weight_lbs = None, percentage_1rm = 100,
\* an upper-case label and the note naming the previous one_rm.
C13_TestWeek ==
    PreviewReturned =>
        \A w \in DOMAIN response.body.weeks :
            response.body.weeks[w].week_number = 8 =>
                /\ Len(response.body.weeks[w].days) = 1
                /\ Len(response.body.weeks[w].days[1].exercises)
                        = Len(response.request.movements)
                /\ \A e \in DOMAIN response.request.movements :
                    /\ SameLetters(ExerciseAt(w, 1, e).exercise_name,
                                   response.request.movements[e].name)
                    /\ IsUpperCased(ExerciseAt(w, 1, e).exercise_name)
                    /\ ExerciseAt(w, 1, e).sets = 1
                    /\ ExerciseAt(w, 1, e).reps = 1
                    /\ ExerciseAt(w, 1, e).weight_lbs = None
                    /\ ExerciseAt(w, 1, e).percentage_1rm = Some(100)
                    /\ ExerciseAt(w, 1, e).notes =
                        <<"Test new 1RM. Previous: ",
                          response.request.movements[e].one_rm, " lbs">>

\* a preview with week 8 was returned for two different movements and a
\* days_per_week that is not 1
C13_Witness ==
    /\ PreviewReturned
    /\ Len(response.body.weeks) = 8
    /\ response.request.days_per_week # 1
    /\ Len(response.request.movements) = 2
    /\ response.request.movements[1] # response.request.movements[2]

LightOf(heavy) ==
    IF heavy = None THEN None
    ELSE IF round(heavy[1] * 4, 5 * Scale) > 0
    THEN Some(Lbs(round(heavy[1] * 4, 5 * Scale)))
    ELSE None

\* C15: in every non-test week and for any days_per_week, day d is a heavy day
\* if and only if d is odd: odd days are named 'Session d - Heavy Day' and carry
\* the week's heavy weight, even days are named 'Session d - Light Day' and carry
\* the light weight, and day 1 of every week is heavy.
C15_HeavyIffOddDay ==
    PreviewReturned =>
        \A w \in DOMAIN response.body.weeks :
            response.body.weeks[w].week_number # 8 =>
                \A d \in DOMAIN response.body.weeks[w].days :
                    LET day == response.body.weeks[w].days[d]
                    IN  /\ day.day_number % 2 = 1 =>
                            /\ day.name = <<"Session ", day.day_number, " - ", "Heavy", " Day">>
                            /\ \A e \in DOMAIN day.exercises :
                                day.exercises[e].weight_lbs = ExerciseAt(w, 1, e).weight_lbs
                        /\ day.day_number % 2 = 0 =>
                            /\ day.name = <<"Session ", day.day_number, " - ", "Light", " Day">>
                            /\ \A e \in DOMAIN day.exercises :
                                day.exercises[e].weight_lbs =
                                    LightOf(ExerciseAt(w, 1, e).weight_lbs)
                        /\ d = 1 => day.day_number = 1

\* a preview of several weeks with an odd number of days (at least three) was
\* returned, in which the light weight differs from the heavy one
C15_Witness ==
    /\ PreviewReturned
    /\ Len(response.body.weeks) >= 2
    /\ response.request.days_per_week \in {3, 5}
    /\ ExerciseAt(2, 1, 1).weight_lbs # None
    /\ ExerciseAt(2, 2, 1).weight_lbs # None
    /\ ExerciseAt(2, 2, 1).weight_lbs # ExerciseAt(2, 1, 1).weight_lbs

\* the exercise at week index w, day index d is on a heavy day, on a light day,
\* or in the test week
OnHeavyDay(w, d) ==
    /\ response.body.weeks[w].week_number # 8
    /\ response.body.weeks[w].days[d].day_number % 2 = 1

OnLightDay(w, d) ==
    /\ response.body.weeks[w].week_number # 8
    /\ response.body.weeks[w].days[d].day_number % 2 = 0

InTestWeek(w) == response.body.weeks[w].week_number = 8

StatedProtocol(week_number) ==
    IF week_number <= 5 THEN <<5, 5>>
    ELSE IF week_number = 6 THEN <<3, 3>>
    ELSE <<2, 2>>

\* C17: every exercise on every day, heavy or light, of week w in 1..7 carries
\* the sets and reps of protocol_by_week[w]: 5x5 in weeks 1..5, 3x3 in week 6,
\* 2x2 in week 7, for every movement.
C17_SetsAndRepsOfProtocol ==
    PreviewReturned =>
        \A w \in DOMAIN response.body.weeks :
            response.body.weeks[w].week_number \in 1..7 =>
                \A d \in DOMAIN response.body.weeks[w].days :
                    \A e \in DOMAIN response.body.weeks[w].days[d].exercises :
                        /\ <<ExerciseAt(w, d, e).sets, ExerciseAt(w, d, e).reps>>
                            = PROTOCOL_BY_WEEK[response.body.weeks[w].week_number]
                        /\ <<ExerciseAt(w, d, e).sets, ExerciseAt(w, d, e).reps>>
                            = StatedProtocol(response.body.weeks[w].week_number)

\* a preview reaching week 7 with a heavy and a light day and two movements
\* was returned
C17_Witness ==
    /\ PreviewReturned
    /\ Len(response.body.weeks) >= 7
    /\ response.request.days_per_week >= 2
    /\ Len(response.request.movements) = 2
    /\ ExerciseAt(7, 2, 2).sets = 2

\* two previews were returned, the last one and an earlier one
TwoPreviewsReturned ==
    /\ PreviewReturned
    /\ earlier.endpoint = "preview_program"
    /\ earlier.status_code = 200

\* movements a and b are the same movement: name, one_rm and max_reps_at_80_percent
SameMovement(a, b) ==
    /\ a.name = b.name
    /\ a.one_rm = b.one_rm
    /\ a.max_reps_at_80_percent = b.max_reps_at_80_percent

\* C18, as stated: two requests that hold the same movement (same one_rm and
\* max_reps_at_80_percent), whatever their target weights, schedules and other
\* movements, return the same MovementCalculations for it.
C18_CalculationsOfEveryMovement ==
    TwoPreviewsReturned =>
        \A i \in DOMAIN response.request.movements :
            \A j \in DOMAIN earlier.request.movements :
                SameMovement(response.request.movements[i], earlier.request.movements[j])
                    => response.body.calculated_data[response.request.movements[i].name]
                        = earlier.body.calculated_data[earlier.request.movements[j].name]

\* C18, amended: the same holds for a movement that is the last of its name in
\* both requests.
C18_CalculationsOfLastOfName ==
    TwoPreviewsReturned =>
        \A i \in LastOfName(response.request.movements) :
            \A j \in LastOfName(earlier.request.movements) :
                SameMovement(response.request.movements[i], earlier.request.movements[j])
                    => response.body.calculated_data[response.request.movements[i].name]
                        = earlier.body.calculated_data[earlier.request.movements[j].name]

\* two previews were returned for the same movement with another target weight,
\* another schedule and another movement beside it
C18_Witness ==
    /\ TwoPreviewsReturned
    /\ \E i \in LastOfName(response.request.movements) :
        \E j \in LastOfName(earlier.request.movements) :
            /\ SameMovement(response.request.movements[i], earlier.request.movements[j])
            /\ response.request.movements[i].target_weight
                # earlier.request.movements[j].target_weight
    /\ response.request.duration_weeks # earlier.request.duration_weeks
    /\ Len(response.request.movements) # Len(earlier.request.movements)

\* C19: the tables get_constants returns are the ones generation uses: in a
\* returned preview the weekly_jump_percent and ramp_up_percent of a movement
\* are the get_constants entries for its max_reps_at_80_percent, the sets and
\* reps of every exercise of week w in 1..8 are the get_constants entry for w,
\* and algorithm_version is get_constants().version.
C19_ConstantsAreTheOnesUsed ==
    PreviewReturned =>
        /\ response.body.algorithm_version = get_constants.version
        /\ \A i \in LastOfName(response.request.movements) :
            LET movement == response.request.movements[i]
                calc == response.body.calculated_data[movement.name]
            IN  /\ calc.weekly_jump_percent
                    = get_constants.weekly_jump_table[movement.max_reps_at_80_percent]
                /\ calc.ramp_up_percent
                    = get_constants.ramp_up_table[movement.max_reps_at_80_percent]
        /\ \A w \in DOMAIN response.body.weeks :
            \A d \in DOMAIN response.body.weeks[w].days :
                \A e \in DOMAIN response.body.weeks[w].days[d].exercises :
                    LET protocol == get_constants.protocol_by_week[
                                        response.body.weeks[w].week_number]
                    IN  /\ ExerciseAt(w, d, e).sets = protocol.sets
                        /\ ExerciseAt(w, d, e).reps = protocol.reps

\* a preview of all eight weeks was returned for a movement at the upper end
\* of the tables
C19_Witness ==
    /\ PreviewReturned
    /\ Len(response.body.weeks) = 8
    /\ response.request.days_per_week >= 2
    /\ \E i \in LastOfName(response.request.movements) :
        response.request.movements[i].max_reps_at_80_percent = 20

\* the week numbers of the returned preview, in list order
WeekNumbersReturned ==
    [w \in DOMAIN response.body.weeks |-> response.body.weeks[w].week_number]

\* preview_program answers either a complete ProgramPreview, with the weeks
\* 1..duration_weeks, or an error that carries no part of a schedule
CompleteOrNothing ==
    response.endpoint = "preview_program" =>
        \/ /\ response.status_code = 200
           /\ WeekNumbersReturned = [w \in 1..response.request.duration_weeks |-> w]
           /\ DOMAIN response.body.calculated_data =
                {response.request.movements[i].name :
                    i \in DOMAIN response.request.movements}
        \/ /\ response.status_code \in {400, 422}
           /\ DOMAIN response.body = {"detail"}

\* a create_program request that does not answer 201 leaves every table as it was
FailedCreateLeavesNoRow ==
    (response'.endpoint = "create_program" /\ response'.status_code # 201)
        => UNCHANGED db

\* C20: generation never partially commits: generate_preview returns a complete
\* ProgramPreview, with all requested weeks, or raises and returns nothing, and
\* when generation or a later step of create_program fails, no program, week,
\* day, exercise or assignment row written by that request remains persisted.
C20_NeverPartiallyCommits ==
    /\ []CompleteOrNothing
    /\ [][FailedCreateLeavesNoRow]_vars

\* create_program failed on the client id, after the rows of the program were
\* flushed, and the tables hold no row
C20_Witness ==
    /\ response.endpoint = "create_program"
    /\ response.status_code = 500
    /\ response.body.detail[2].exc = "ValueError"
    /\ response.request.inputs.duration_weeks = 8
    /\ programs = {}
    /\ program_day_exercises = {}

\* a weight as an exercise reports it: None when it is not positive
Reported(weight) == IF weight > 0 THEN Some(weight) ELSE None

\* the index of the last movement of the request that bears the name of movement i
LaterOfName(movements, i) ==
    CHOOSE j \in LastOfName(movements) : movements[j].name = movements[i].name

\* C25: when two movements of one request share a name, no error is raised,
\* calculated_data holds a single entry for that name, computed from the later
\* movement, and every exercise of the earlier movement in weeks 1..7 is computed
\* with the later movement's weekly_jump_lbs applied to the earlier movement's
\* own target_weight and one_rm.
C25_DuplicateNameUsesLaterJump ==
    (/\ response.endpoint = "preview_program"
     /\ response.request.duration_weeks <= 8
     /\ ProgramInputs_validate(response.request)
     /\ \E i, j \in DOMAIN response.request.movements :
            i < j /\ response.request.movements[i].name = response.request.movements[j].name)
    => /\ response.status_code = 200
       /\ \A i \in DOMAIN response.request.movements :
            LET movement == response.request.movements[i]
                later == response.request.movements[LaterOfName(response.request.movements, i)]
                jump == Lbs(round(later.one_rm
                                  * WEEKLY_JUMP_TABLE_0[later.max_reps_at_80_percent],
                                  100 * Scale))
            IN  /\ response.body.calculated_data[movement.name] = StatedCalculations(later)
                /\ \A w \in DOMAIN response.body.weeks :
                    response.body.weeks[w].week_number \in 1..7 =>
                        \A d \in DOMAIN response.body.weeks[w].days :
                            LET heavy == Reported(StatedHeavyWeight(
                                            response.body.weeks[w].week_number,
                                            movement.target_weight, jump))
                                weight == IF d \in HeavyDays(w) THEN heavy ELSE LightOf(heavy)
                            IN  /\ ExerciseAt(w, d, i).weight_lbs = weight
                                /\ ExerciseAt(w, d, i).percentage_1rm =
                                    IF weight = None THEN None
                                    ELSE Some(round(weight[1] * 100, movement.one_rm))

\* a preview of seven weeks or more was returned for two movements of one name
\* whose weekly jumps and target weights differ
C25_Witness ==
    /\ PreviewReturned
    /\ Len(response.body.weeks) >= 7
    /\ response.request.days_per_week >= 2
    /\ Len(response.request.movements) = 2
    /\ response.request.movements[1].name = response.request.movements[2].name
    /\ response.request.movements[1].target_weight # response.request.movements[2].target_weight
    /\ StatedCalculations(response.request.movements[1]).weekly_jump_lbs
        # StatedCalculations(response.request.movements[2]).weekly_jump_lbs
    /\ ExerciseAt(7, 1, 1).weight_lbs # None

\* week index w of the returned preview is a testing week: its only day is the
\* 1RM test day
IsTestingWeek(w) ==
    /\ Len(response.body.weeks[w].days) = 1
    /\ response.body.weeks[w].days[1].name = <<"1RM Test Day">>

\* week index w is an ordinary week: days_per_week sessions, heavy and light
IsOrdinaryWeek(w) ==
    /\ Len(response.body.weeks[w].days) = response.request.days_per_week
    /\ \A d \in DOMAIN response.body.weeks[w].days :
        response.body.weeks[w].days[d].name \in
            {<<"Session ", d, " - ", "Heavy", " Day">>,
             <<"Session ", d, " - ", "Light", " Day">>}

\* C26: for every duration_weeks d in 0..8, generate_preview returns exactly d
\* weeks with week_number 1..d in ascending order, and a week is the testing
\* week if and only if its number is 8: a shorter program holds no test week and
\* its last week is an ordinary heavy/light week.
C26_WeeksOfEveryDuration ==
    (/\ response.endpoint = "preview_program"
     /\ ProgramInputs_validate(response.request)
     /\ response.request.duration_weeks \in 0..8)
    => /\ response.status_code = 200
       /\ Len(response.body.weeks) = response.request.duration_weeks
       /\ \A w \in DOMAIN response.body.weeks :
            /\ response.body.weeks[w].week_number = w
            /\ IsTestingWeek(w) <=> (w = 8)
            /\ w # 8 => IsOrdinaryWeek(w)

\* a preview of a program shorter than eight weeks was returned
C26_Witness ==
    /\ PreviewReturned
    /\ response.request.duration_weeks \in 1..7
    /\ Len(response.body.weeks) = response.request.duration_weeks
    /\ response.request.days_per_week >= 2

\* the fields of an exercise that a round trip keeps
RoundTripFields(exercise) ==
    [exercise_name |-> exercise.exercise_name,
     sets |-> exercise.sets,
     reps |-> exercise.reps,
     weight_lbs |-> exercise.weight_lbs,
     percentage_1rm |-> exercise.percentage_1rm,
     notes |-> exercise.notes]

\* the weeks of a schedule, every exercise cut down to the round-trip fields
RoundTripWeeks(weeks) ==
    [w \in DOMAIN weeks |->
        [d \in DOMAIN weeks[w].days |->
            [e \in DOMAIN weeks[w].days[d].exercises |->
                RoundTripFields(weeks[w].days[d].exercises[e])]]]

\* C30: reading a saved program back is a faithful round trip: get_program on a
\* program stored by create_program returns weeks whose exercises equal the
\* generated preview's in order, exercise_name, sets, reps, weight_lbs,
\* percentage_1rm and notes, also where weight_lbs is None or percentage_1rm is 0.
C30_RoundTrip ==
    (response.endpoint = "get_program" /\ response.status_code = 200)
        => RoundTripWeeks(response.body.weeks)
            = RoundTripWeeks(generate_preview(response.body.input_data).weeks)

\* the caller a request was answered for
Caller == response'.request.current_user

\* the coach of the assignment a workout log belongs to
CoachOf(workout) ==
    {a.coach_id : a \in {x \in client_program_assignments :
                            x.id = workout.client_program_assignment_id}}

\* C22: only the client of a workout log and the coach of its assignment may
\* update or delete it, whoever created the log; every other caller gets 403 and
\* the log is unchanged.
C22_OnlyClientAndTheirCoach ==
    [][\A workout \in workout_logs :
        (/\ response'.endpoint \in {"update_workout", "delete_workout"}
         /\ response'.request.workout_id = workout.id)
        => IF Caller = workout.client_id \/ Caller \in CoachOf(workout)
           THEN response'.status_code \in {200, 204}
           ELSE response'.status_code = 403 /\ workout_logs' = workout_logs]_vars

C24_DeletedStaysDeleted ==
    [][\A deleted \in deleted_workouts :
        /\ (/\ response'.endpoint = "get_workouts_for_assignment"
            /\ response'.status_code = 200)
            => \A w \in response'.body : w.id # deleted.id
        /\ (/\ response'.endpoint \in {"update_workout", "delete_workout"}
            /\ response'.request.workout_id = deleted.id)
            => response'.status_code = 404 /\ workout_logs' = workout_logs]_vars

\* a deleted workout has been asked for again and answered 404, after a later
\* workout was logged for the same assignment
C24_Witness ==
    /\ response.endpoint \in {"update_workout", "delete_workout"}
    /\ response.status_code = 404
    /\ \E deleted \in deleted_workouts :
        /\ deleted.id = response.request.workout_id
        /\ \E w \in workout_logs :
            /\ w.id > deleted.id
            /\ w.client_program_assignment_id = deleted.client_program_assignment_id

\* the exercises stored for a program
ExercisesOf(program_id, exercises) == {e \in exercises : e.id[1] = program_id}

\* C28: no archived program has a client assignment with is_active = true.
C28_NoActiveAssignmentOfArchivedProgram ==
    \A p \in programs : \A a \in client_program_assignments :
        (p.archived_at # None /\ a.program_id = p.id) => ~a.is_active

\* C21: archiving a program that has active client assignments fails: the
\* program stays un-archived and every assignment keeps its status and its
\* is_active flag.
C21_ArchiveFailsWithActiveAssignments ==
    [][\A p \in programs :
        (/\ response'.endpoint = "delete_program"
         /\ response'.request.program_id = <<p.id>>
         /\ p.archived_at = None
         /\ \E a \in client_program_assignments :
                a.program_id = p.id /\ a.is_active)
        => /\ response'.status_code >= 400
           /\ programs' = programs
           /\ client_program_assignments' = client_program_assignments]_vars

\* a program the client's list shows: one of the client's assignments is for
\* it, and it is no draft
VisibleToClient(p) ==
    /\ p.status # Some("draft")
    /\ \E a \in client_program_assignments : a.program_id = p.id

GeneratedFrom(template) ==
    {p \in programs : p.parent_template_id = Some(template.id)}

\* C29: whatever the interleaving of the generate_for_client requests on a
\* template, once they are all answered the template's times_assigned equals
\* its value before them (0) plus the number of requests that committed; a
\* request that fails adds nothing.
C29_NoIncrementLost ==
    (\A r \in DOMAIN sessions : sessions[r] = None)
        => \A template \in programs :
            template.is_template
                => (IF Truthy(template.times_assigned)
                    THEN template.times_assigned[1] ELSE 0)
                    = Cardinality(GeneratedFrom(template))

====
